---- MODULE Spec2Model ----
(***************************************************************************)
(* Mosaic stitching of rplab_image_analysis (general/stitching.py).        *)
(*                                                                         *)
(* One call of stitch_images is modelled as a state machine: the call      *)
(* prologue (is_mm, copy_non_image_files), one step per iteration of the   *)
(* loop of _stitch_mm_images, and the epilogue (mkdir, save_image).        *)
(* The files of file_list are read one at a time; `fields` is what the     *)
(* call has read of file_list[0] and of the later files it has merged.     *)
(*                                                                         *)
(* Stage positions and pixel sizes are integers in one common length unit, *)
(* so (end - start)/pixel_size is an exact rational with a small numerator *)
(* and denominator, for which Python's float division and round() give the *)
(* exactly rounded value.  Arrays are records [dtype, h, w, px] with px a   *)
(* sequence of h rows of w integers; integer dtypes keep their real width. *)
(***************************************************************************)
EXTENDS Integers, Sequences, FiniteSets, TLC

\* ------------------------------------------------------------------ bounds
\* longest file_list explored: with any metadata, with pixel content
MaxCallFiles == 2
MaxFiles == 3
\* pages of a TIFF file, TIFF files of a directory
MaxPages == 2
MaxTifs == 2
\* fish directories of an acquisition
MaxFish == 12
\* files of a directory
MaxDirFiles == 3
\* array dimensions and downsample factor of _get_downsample_tuple
MaxNdim == 5
MaxFactor == 10
\* frames of a metadata file and their z positions
MaxFrames == 3
MaxZ == 2
\* pixels of an image of get_median_subtracted_image
MaxMedianPixels == 3
\* largest height and width of a field's array
MaxDim == 2
\* largest ROI width/height in the metadata
MaxMetaDim == 4
\* stage positions lie in -MaxPos..MaxPos (x) and -MaxPosY..MaxPosY (y)
MaxPos == 3
MaxPosY == 1
\* largest PixelSizeUm and Binning of the metadata
MaxPixelSize == 2
MaxBinning == 2

\* ------------------------------------------------------------- arithmetic
Min2(a, b) == IF a <= b THEN a ELSE b
Max2(a, b) == IF a >= b THEN a ELSE b

\* int(a/b) of Python for a >= 0, b > 0: true division, truncated
IntDiv(a, b) == a \div b

\* Python 3 round() of the rational num/den (den > 0): nearest integer, an
\* exact half goes to the even neighbour
PyRound(num, den) ==
    LET q == num \div den
        r == num % den
    IN  IF 2 * r < den THEN q
        ELSE IF 2 * r > den THEN q + 1
        ELSE IF q % 2 = 0 THEN q ELSE q + 1

\* ------------------------------------------------------------------ arrays
\* number of bits of an integer dtype
Bits(dtype) == IF dtype = "uint8" THEN 8 ELSE 16

Pow2(n) == IF n = 8 THEN 256 ELSE 65536

\* the signed integer dtypes
Signed(dtype) == dtype \in {"int16", "int32"}

\* the dtypes that represent every value that 16-bit pixels can produce
Wide(dtype) == dtype \in {"float64", "int32"}

\* numpy's cast of an integral value to dtype (assignment into an array and
\* astype both cast "unsafe": integers wrap modulo 2^bits, into the upper
\* half's negative values for a signed dtype)
Cast(v, dtype) ==
    IF Wide(dtype) THEN v
    ELSE LET u == v % Pow2(Bits(dtype))
         IN  IF Signed(dtype) /\ 2 * u >= Pow2(Bits(dtype))
             THEN u - Pow2(Bits(dtype))
             ELSE u

\* numpy's result dtype of combining two arrays
Promote(d1, d2) ==
    IF d1 = d2 THEN d1
    ELSE IF d1 = "float64" \/ d2 = "float64" THEN "float64"
    ELSE IF d1 = "int32" \/ d2 = "int32" THEN "int32"
    ELSE IF {d1, d2} = {"uint16", "int16"} THEN "int32"
    ELSE IF d1 = "int16" \/ d2 = "int16" THEN "int16"
    ELSE IF d1 = "uint16" \/ d2 = "uint16" THEN "uint16"
    ELSE "uint8"

\* np.zeros([h, w]): float64 zeros
Zeros(h, w) ==
    [dtype |-> "float64", h |-> h, w |-> w,
     px |-> [r \in 1..h |-> [c \in 1..w |-> 0]]]

\* np.concatenate([a, b], axis=1): b to the right of a
ConcatCols(a, b) ==
    [dtype |-> Promote(a.dtype, b.dtype), h |-> a.h, w |-> a.w + b.w,
     px |-> [r \in 1..a.h |-> a.px[r] \o b.px[r]]]

\* np.concatenate([a, b]): b below a
ConcatRows(a, b) ==
    [dtype |-> Promote(a.dtype, b.dtype), h |-> a.h + b.h, w |-> a.w,
     px |-> a.px \o b.px]

\* ndarray.astype(dtype)
AsType(a, dtype) ==
    [dtype |-> dtype, h |-> a.h, w |-> a.w,
     px |-> [r \in 1..a.h |-> [c \in 1..a.w |-> Cast(a.px[r][c], dtype)]]]

\* the value of a name that is not bound yet
NoImage == [dtype |-> "none", h |-> 0, w |-> 0, px |-> << >>]

\* ----------------------------------------------- stitching.py, pure parts
\* _get_positions: (x_pos, y_pos) of the image metadata
_get_positions(image_metadata) == <<image_metadata.x_pos, image_metadata.y_pos>>

\* _get_image_height: image.shape[-2]
_get_image_height(image) == image.h

\* _get_ds_factor: int(meta_height/image_height) when the heights differ
\* (0 when the array is taller than the metadata says), else 1
_get_ds_factor(image_metadata, new_image) ==
    IF _get_image_height(new_image) # image_metadata.image_height
    THEN IntDiv(image_metadata.image_height, _get_image_height(new_image))
    ELSE 1

\* _init_image_dims: [int(meta_height/ds_factor), int(meta_width/ds_factor)];
\* the caller has excluded ds_factor = 0, where the division raises
_init_image_dims(image_metadata, ds) ==
    <<IntDiv(image_metadata.image_height, ds),
      IntDiv(image_metadata.image_width, ds)>>

\* _get_pixel_size: pixel size of the metadata * binning * downsample factor
_get_pixel_size(image_metadata, ds) ==
    image_metadata.pixel_size * image_metadata.binning * ds

\* _init_ranges: x range [0, width], y range [0, height]
_init_ranges(dims) == <<(<<0, dims[2]>>), (<<0, dims[1]>>)>>

\* mutant: halves rounded up, floor(x + 0.5)
_get_pixel_offset_half_up(start_um, end_um, size) ==
    (2 * (end_um - start_um) + size) \div (2 * size)

\* _get_pixel_offset: round((end_um - start_um)/pixel_size)
_get_pixel_offset(start_um, end_um, size) == PyRound(end_um - start_um, size)

\* mutant: the x inversion is not applied
_get_xy_offsets_x_not_inverted(start, positions, x_inv, y_inv, swap, size) ==
    LET x_offset == PyRound(positions[1] - start[1], size)
        y_offset == PyRound(positions[2] - start[2], size)
                        * (IF y_inv THEN -1 ELSE 1)
    IN  IF ~swap THEN <<x_offset, y_offset>> ELSE <<y_offset, x_offset>>

\* mutant: the axes are swapped before the inversions are applied
_get_xy_offsets_swap_first(start, positions, x_inv, y_inv, swap, size) ==
    LET sx == PyRound(positions[1] - start[1], size)
        sy == PyRound(positions[2] - start[2], size)
        x_offset == (IF swap THEN sy ELSE sx) * (IF x_inv THEN -1 ELSE 1)
        y_offset == (IF swap THEN sx ELSE sy) * (IF y_inv THEN -1 ELSE 1)
    IN  <<x_offset, y_offset>>

\* _get_xy_offsets: offsets of both stage axes, each negated when its axis is
\* inverted, exchanged when the axes are swapped
_get_xy_offsets(start, positions, x_inv, y_inv, swap, size) ==
    LET x_offset == _get_pixel_offset(start[1], positions[1], size)
                        * (IF x_inv THEN -1 ELSE 1)
        y_offset == _get_pixel_offset(start[2], positions[2], size)
                        * (IF y_inv THEN -1 ELSE 1)
    IN  IF ~swap THEN <<x_offset, y_offset>> ELSE <<y_offset, x_offset>>

\* _get_new_ranges: pixel ranges of the new image, <<x range, y range>>
_get_new_ranges(x_stage_offset, y_stage_offset, dims) ==
    <<(<<x_stage_offset, x_stage_offset + dims[2]>>),
      (<<y_stage_offset, y_stage_offset + dims[1]>>)>>

\* _get_stitched_extns: <<[left, right], [top, bottom]>>
_get_stitched_extns(sx, sy, nx, ny) ==
    <<(<<sx[1] - nx[1], nx[2] - sx[2]>>), (<<sy[1] - ny[1], ny[2] - sy[2]>>)>>

\* mutant: the ranges are replaced by those of the new image
_update_stitched_range_replaced(sx, sy, nx, ny) == <<nx, ny>>

\* _update_stitched_range: the two range lists after the in-place update
_update_stitched_range(sx, sy, nx, ny) ==
    <<(<<Min2(sx[1], nx[1]), Max2(sx[2], nx[2])>>),
      (<<Min2(sy[1], ny[1]), Max2(sy[2], ny[2])>>)>>

\* mutant: the result of the concatenations is not cast back
_add_stitched_extns_no_cast(image, x_extensions, y_extensions) ==
    LET a == IF x_extensions[1] > 0
             THEN ConcatCols(Zeros(image.h, x_extensions[1]), image)
             ELSE image
        b == IF x_extensions[2] > 0
             THEN ConcatCols(a, Zeros(a.h, x_extensions[2]))
             ELSE a
        c == IF y_extensions[1] > 0
             THEN ConcatRows(Zeros(y_extensions[1], b.w), b)
             ELSE b
    IN  IF y_extensions[2] > 0
        THEN ConcatRows(c, Zeros(y_extensions[2], c.w))
        ELSE c

\* mutant: the block of the left extension is concatenated on the right
_add_stitched_extns_left_on_right(image, x_extensions, y_extensions) ==
    LET dtype == image.dtype
        a == IF x_extensions[1] > 0
             THEN ConcatCols(image, Zeros(image.h, x_extensions[1]))
             ELSE image
        b == IF x_extensions[2] > 0
             THEN ConcatCols(a, Zeros(a.h, x_extensions[2]))
             ELSE a
        c == IF y_extensions[1] > 0
             THEN ConcatRows(Zeros(y_extensions[1], b.w), b)
             ELSE b
        d == IF y_extensions[2] > 0
             THEN ConcatRows(c, Zeros(y_extensions[2], c.w))
             ELSE c
    IN  AsType(d, dtype)

\* _add_stitched_extns: zero blocks on the left, right, top and bottom for
\* every positive amount, then the cast back to the dtype before
_add_stitched_extns(image, x_extensions, y_extensions) ==
    LET dtype == image.dtype
        a == IF x_extensions[1] > 0
             THEN ConcatCols(Zeros(image.h, x_extensions[1]), image)
             ELSE image
        b == IF x_extensions[2] > 0
             THEN ConcatCols(a, Zeros(a.h, x_extensions[2]))
             ELSE a
        c == IF y_extensions[1] > 0
             THEN ConcatRows(Zeros(y_extensions[1], b.w), b)
             ELSE b
        d == IF y_extensions[2] > 0
             THEN ConcatRows(c, Zeros(y_extensions[2], c.w))
             ELSE c
    IN  AsType(d, dtype)

\* mutant: the slice always starts at the origin of the canvas
_get_position_slices_at_origin(x_extensions, y_extensions, dims) ==
    <<(<<0, dims[2]>>), (<<0, dims[1]>>)>>

\* _get_position_slices: <<x slice, y slice>>, each <<start, stop>>
_get_position_slices(x_extensions, y_extensions, dims) ==
    LET x_slice == IF x_extensions[1] > 0
                   THEN <<0, dims[2]>>
                   ELSE <<-x_extensions[1], dims[2] - x_extensions[1]>>
        y_slice == IF y_extensions[1] > 0
                   THEN <<0, dims[1]>>
                   ELSE <<-y_extensions[1], dims[1] - y_extensions[1]>>
    IN  <<x_slice, y_slice>>

\* a[start:stop] along an axis of length n (start >= 0): the first index
\* before the slice and the number of indices in it
SliceLo(s, n) == Min2(s[1], n)
SliceLen(s, n) == Max2(0, Min2(s[2], n) - Min2(s[1], n))

\* stitched_image[slices[1], slices[0]]
Region(image, slices) ==
    LET r0 == SliceLo(slices[2], image.h)
        c0 == SliceLo(slices[1], image.w)
        h == SliceLen(slices[2], image.h)
        w == SliceLen(slices[1], image.w)
    IN  [dtype |-> image.dtype, h |-> h, w |-> w,
         px |-> [r \in 1..h |-> [c \in 1..w |-> image.px[r0 + r][c0 + c]]]]

\* mutant: the new image overwrites the region
_get_new_region_overwrite(new_image, image, slices) ==
    LET stitched_region == Region(image, slices)
    IN  IF stitched_region.h # new_image.h \/ stitched_region.w # new_image.w
        THEN [raised |-> TRUE, value |-> NoImage]
        ELSE [raised |-> FALSE, value |-> new_image]

\* _get_new_region_max: np.max(np.array((stitched_region, new_image)), 0);
\* np.array of two arrays of different shapes raises ValueError
_get_new_region_max(new_image, image, slices) ==
    LET stitched_region == Region(image, slices)
    IN  IF stitched_region.h # new_image.h \/ stitched_region.w # new_image.w
        THEN [raised |-> TRUE, value |-> NoImage]
        ELSE [raised |-> FALSE,
              value |->
                [dtype |-> Promote(stitched_region.dtype, new_image.dtype),
                 h |-> new_image.h, w |-> new_image.w,
                 px |-> [r \in 1..new_image.h |-> [c \in 1..new_image.w |->
                            Max2(stitched_region.px[r][c],
                                 new_image.px[r][c])]]]]

\* stitched_image[slices[1], slices[0]] = new_region: written in place, cast
\* to the dtype of stitched_image
SetRegion(image, slices, new_region) ==
    LET r0 == SliceLo(slices[2], image.h)
        c0 == SliceLo(slices[1], image.w)
    IN  [image EXCEPT !.px =
            [r \in 1..image.h |-> [c \in 1..image.w |->
                IF /\ r > r0 /\ r <= r0 + new_region.h
                   /\ c > c0 /\ c <= c0 + new_region.w
                THEN Cast(new_region.px[r - r0][c - c0], image.dtype)
                ELSE image.px[r][c]]]]

\* _stitch_new_image: the canvas and the two ranges it leaves (the range
\* lists of the caller are updated in place), or the exception it raises
_stitch_new_image(new_image, image, x_offset, y_offset, dims, sx, sy) ==
    LET new_ranges == _get_new_ranges(x_offset, y_offset, dims)
        extns == _get_stitched_extns(sx, sy, new_ranges[1], new_ranges[2])
        ranges == _update_stitched_range(sx, sy, new_ranges[1], new_ranges[2])
        extended == _add_stitched_extns(image, extns[1], extns[2])
        slices == _get_position_slices(extns[1], extns[2], dims)
        new_region == _get_new_region_max(new_image, extended, slices)
    IN  IF new_region.raised
        THEN [raised |-> TRUE, image |-> extended,
              x_range |-> ranges[1], y_range |-> ranges[2]]
        ELSE [raised |-> FALSE,
              image |-> SetRegion(extended, slices, new_region.value),
              x_range |-> ranges[1], y_range |-> ranges[2]]

\* ------------------------------------------------------------------ inputs
\* pixel (r, c) of the test pattern pat of an h x w array: all zero, a ramp
\* rising or falling along the array, a ramp above the range of uint8 and
\* a ramp of negative values
Pixel(pat, h, w, r, c) ==
    CASE pat = "zero" -> 0
      [] pat = "low" -> 0 - (1 + (r - 1) * w + (c - 1))
      [] pat = "up" -> 1 + (r - 1) * w + (c - 1)
      [] pat = "down" -> 1 + h * w - ((r - 1) * w + c)
      [] pat = "high" -> 256 + 1 + (r - 1) * w + (c - 1)

MkImage(dtype, h, w, pat) ==
    [dtype |-> dtype, h |-> h, w |-> w,
     px |-> [r \in 1..h |-> [c \in 1..w |-> Pixel(pat, h, w, r, c)]]]

MkMeta(x, y, size, binning, width, height) ==
    [x_pos |-> x, y_pos |-> y, pixel_size |-> size, binning |-> binning,
     image_width |-> width, image_height |-> height]

NoMeta == MkMeta(0, 0, 0, 0, 0, 0)

\* a file with Micro-Manager metadata and a readable image
GoodFile(meta, image) ==
    [meta_ok |-> TRUE, load_ok |-> TRUE, load_error |-> "", meta |-> meta,
     image |-> image]

\* a file for which no metadata file is found (MMMetadata raises)
MissingMetaFile ==
    [meta_ok |-> FALSE, load_ok |-> FALSE, load_error |-> "", meta |-> NoMeta,
     image |-> NoImage]

\* a file with metadata whose image cannot be read: _get_new_image raises
\* the exception kind
FailingFile(meta, kind) ==
    [meta_ok |-> TRUE, load_ok |-> FALSE, load_error |-> kind, meta |-> meta,
     image |-> NoImage]

\* a file with metadata whose image file cannot be opened
UnreadableFile(meta) == FailingFile(meta, "OSError")

Shapes == (1..MaxDim) \X (1..MaxDim)

\* ------------------------------------------------------------------- state
VARIABLES
    pc,               \* "call", "loop", "saved", "raised"
    error,            \* the exception that ended the call, "" for none
    x_inverted,       \* arguments of stitch_images
    y_inverted,
    swap_axes,
    fields,           \* file_list[0], then the later files merged so far
    file_num,         \* loop iterations of _stitch_mm_images completed
    positions,        \* locals of _stitch_mm_images
    x_offset,
    y_offset,
    start_positions,
    ds_factor,
    image_dims,
    pixel_size,
    x_range,
    y_range,
    stitched_image,
    dest_created,     \* save_path.parent was created by this call
    save_calls,       \* calls of files.save_image
    tif_files,        \* image files of a directory, each a sequence of pages
    max_proj,         \* result of get_max / _get_max_from_list
    fish_nums,        \* argument of stitch_ls_pycro
    fish_dirs,        \* fish directories the loop has still to visit
    stitched_fish,    \* numbers of the fish directories it has stitched
    file_path,        \* argument of MMMetadata / is_mm
    metadata_file,    \* the file _init_metadata loaded
    is_mm_result,     \* what is_mm returned, "" before it returns
    image_num_dims,   \* arguments and result of _get_downsample_tuple
    downsample_factor,
    downsample_tuple,
    mm_frames,        \* frame entries of a metadata file, in file order
    image_index,      \* argument of get_image_metadata
    frame_metadata,   \* the MMImageMetadata it returned
    item_value,       \* value of the key lookup on it
    median_image,     \* argument of get_median_subtracted_image
    subtracted_image, \* its result
    file_names,       \* names of the image files of a directory, natsorted
    file_index,       \* which of them is the file_path of _get_new_image
    series,           \* axes and shape of stack.series[0], image axes left out
    page_num,         \* argument of get_coords_dict
    coords_dict,      \* its result
    new_file_name,    \* result of get_new_file_name
    file_path_tuples, \* argument of pool.map: root and TIFF of every task
    tif_present,      \* which of the TIFF files exist
    root_present,     \* which of the root directories exist
    task_pc,          \* position of every png_conversion_task
    task_page,        \* pages a task has written as PNG
    rmtree_left       \* files a task's rmtree has listed and not yet deleted

config == <<x_inverted, y_inverted, swap_axes>>
scale == <<start_positions, ds_factor, image_dims, pixel_size>>
canvas == <<x_range, y_range, stitched_image>>
placement == <<positions, x_offset, y_offset>>
stitching == <<config, fields, file_num, placement, scale, canvas,
               dest_created, save_calls>>
projection == <<tif_files, max_proj>>
batch == <<fish_nums, fish_dirs, stitched_fish>>
lookup == <<file_path, metadata_file, is_mm_result>>
downsample == <<image_num_dims, downsample_factor, downsample_tuple>>
frames == <<mm_frames, image_index, frame_metadata, item_value>>
median == <<median_image, subtracted_image>>
loading == <<file_names, file_index>>
coords == <<series, page_num, coords_dict, new_file_name>>
pool == <<file_path_tuples, tif_present, root_present, task_pc, task_page,
          rmtree_left>>
more_modules == <<loading, coords, pool>>
other_modules == <<frames, median, more_modules>>
vars == <<pc, error, stitching, projection, batch, lookup, downsample,
          other_modules>>

\* the state of the parts a call does not use
NoProjection == tif_files = << >> /\ max_proj = NoImage
NoBatch == fish_nums = {} /\ fish_dirs = << >> /\ stitched_fish = {}
NoLookup ==
    /\ file_path = [kind |-> "none", dir_files |-> << >>]
    /\ metadata_file = [from |-> "none", index |-> 0]
    /\ is_mm_result = ""
NoDownsample ==
    image_num_dims = 0 /\ downsample_factor = 0 /\ downsample_tuple = << >>
\* an MMImageMetadata object
MMImageMetadata(frame_index, z_pos) ==
    [image_index |-> frame_index, z_pos |-> z_pos]
NoFrames ==
    /\ mm_frames = << >>
    /\ image_index = 0
    /\ frame_metadata = MMImageMetadata(0, 0)
    /\ item_value = 0
NoMedian == median_image = NoImage /\ subtracted_image = NoImage
NoLoading == file_names = << >> /\ file_index = 0
NoCoords ==
    /\ series = [axes |-> << >>, shape |-> << >>]
    /\ page_num = 0
    /\ coords_dict = << >>
    /\ new_file_name = << >>
NoPool ==
    /\ file_path_tuples = << >>
    /\ tif_present = << >>
    /\ root_present = << >>
    /\ task_pc = << >>
    /\ task_page = << >>
    /\ rmtree_left = << >>
NoMoreModules == NoLoading /\ NoCoords /\ NoPool
NoOtherModules == NoFrames /\ NoMedian /\ NoMoreModules

\* the state at the call of stitch_images, for given arguments
InitCall(x_inv, y_inv, swap) ==
    /\ pc = "call"
    /\ error = ""
    /\ x_inverted = x_inv
    /\ y_inverted = y_inv
    /\ swap_axes = swap
    /\ fields = << >>
    /\ file_num = 0
    /\ positions = <<0, 0>>
    /\ x_offset = 0
    /\ y_offset = 0
    /\ start_positions = <<0, 0>>
    /\ ds_factor = 0
    /\ image_dims = <<0, 0>>
    /\ pixel_size = 0
    /\ x_range = <<0, 0>>
    /\ y_range = <<0, 0>>
    /\ stitched_image = NoImage
    /\ dest_created = FALSE
    /\ save_calls = 0

\* ----------------------------------------------------------------- actions
\* mutant: the exception is caught, the file skipped and the call goes on
RaiseSwallowed(kind) ==
    /\ pc' = pc
    /\ error' = kind
    /\ UNCHANGED <<file_num, placement, scale, canvas, save_calls>>

\* an exception leaves the loop and stitch_images: nothing catches it
Raise(kind) ==
    /\ pc' = "raised"
    /\ error' = kind
    /\ UNCHANGED <<file_num, placement, scale, canvas, save_calls>>

\* stitch_images with an empty file_list: file_list[0] raises IndexError
CallEmpty ==
    /\ pc = "call"
    /\ Raise("IndexError")
    /\ UNCHANGED <<config, fields, dest_created>>
    /\ UNCHANGED <<projection, batch, lookup, downsample, other_modules>>

\* _stitch_mm_images called with an empty file_list: the loop body never
\* runs and "return stitched_image" reads a name that was never bound
StitchMMEmpty ==
    /\ pc = "call"
    /\ Raise("UnboundLocalError")
    /\ UNCHANGED <<config, fields, dest_created>>
    /\ UNCHANGED <<projection, batch, lookup, downsample, other_modules>>

\* the rotation counts of the stitch configuration
Rotations == 0..3

\* stitch_images(file_list, save_path, num_90_rotations=n, ...), as the test
\* calls it: the signature has no such parameter and the call raises
\* TypeError before the body runs
CallRotated(n) ==
    /\ pc = "call"
    /\ n \in Rotations
    /\ Raise("TypeError")
    /\ UNCHANGED <<config, fields, dest_created>>
    /\ UNCHANGED <<projection, batch, lookup, downsample, other_modules>>

\* stitch_images up to the call of _stitch_mm_images.  Without metadata for
\* file_list[0] the stitching is skipped, save_path.parent is created and
\* the unbound name stitched_image raises before save_image is called.
Call(f) ==
    /\ pc = "call"
    /\ fields' = <<f>>
    /\ dest_created' = TRUE
    /\ IF ~f.meta_ok
       THEN Raise("UnboundLocalError")
       ELSE /\ pc' = "loop"
            /\ UNCHANGED <<error, file_num, placement, scale, canvas,
                           save_calls>>
    /\ UNCHANGED config
    /\ UNCHANGED <<projection, batch, lookup, downsample, other_modules>>

\* mutant: start position and pixel size are taken from every file
ScaleOfEveryFile(num, image_metadata, new_image) ==
    IF num = 0
    THEN LET ds == _get_ds_factor(image_metadata, new_image)
         IN  <<_get_positions(image_metadata), ds,
               _init_image_dims(image_metadata, ds),
               _get_pixel_size(image_metadata, ds)>>
    ELSE <<_get_positions(image_metadata), ds_factor, image_dims,
           _get_pixel_size(image_metadata, ds_factor)>>

\* the values of start_positions, ds_factor, image_dims and pixel_size after
\* the iteration for a file with this metadata and image
ScaleAfter(num, image_metadata, new_image) ==
    IF num = 0
    THEN LET ds == _get_ds_factor(image_metadata, new_image)
         IN  <<_get_positions(image_metadata), ds,
               _init_image_dims(image_metadata, ds),
               _get_pixel_size(image_metadata, ds)>>
    ELSE scale

\* mutant: the first canvas is allocated from image_dims and the image pasted
InitialCanvasOfDims(new_image, dims) ==
    SetRegion(AsType(Zeros(dims[1], dims[2]), new_image.dtype),
              <<(<<0, Min2(dims[2], new_image.w)>>),
                (<<0, Min2(dims[1], new_image.h)>>)>>,
              Region(new_image, <<(<<0, dims[2]>>), (<<0, dims[1]>>)>>))

\* stitched_image = new_image of the first iteration
InitialCanvas(new_image, dims) == new_image

\* first iteration of the loop of _stitch_mm_images (file_num == 0)
LoopFirst ==
    /\ pc = "loop"
    /\ file_num = 0
    /\ LET f == fields[1]
       IN  IF ~f.load_ok
           THEN Raise(f.load_error)
           ELSE IF _get_ds_factor(f.meta, f.image) = 0
           THEN Raise("ZeroDivisionError")
           ELSE /\ LET s == ScaleAfter(file_num, f.meta, f.image)
                   IN  /\ start_positions' = s[1]
                       /\ ds_factor' = s[2]
                       /\ image_dims' = s[3]
                       /\ pixel_size' = s[4]
                /\ x_range' = _init_ranges(image_dims')[1]
                /\ y_range' = _init_ranges(image_dims')[2]
                /\ stitched_image' = InitialCanvas(f.image, image_dims')
                /\ positions' = _get_positions(f.meta)
                /\ file_num' = file_num + 1
                /\ UNCHANGED <<pc, error, x_offset, y_offset, save_calls>>
    /\ UNCHANGED <<config, fields, dest_created>>
    /\ UNCHANGED <<projection, batch, lookup, downsample, other_modules>>

\* what a later iteration reads of its file: the stage position and the image
Seen(f) == GoodFile(MkMeta(f.meta.x_pos, f.meta.y_pos, 0, 0, 0, 0), f.image)

\* a later iteration of the loop, for the next file f of file_list
LoopLater(f) ==
    /\ pc = "loop"
    /\ file_num >= 1
    /\ IF ~f.meta_ok
       THEN Raise("FileNotFoundError") /\ UNCHANGED fields
       ELSE IF ~f.load_ok
       THEN Raise(f.load_error) /\ UNCHANGED fields
       ELSE LET offsets == _get_xy_offsets(
                    start_positions, _get_positions(f.meta), x_inverted,
                    y_inverted, swap_axes, pixel_size)
                out == _stitch_new_image(
                    f.image, stitched_image, offsets[1], offsets[2],
                    image_dims, x_range, y_range)
            IN  IF out.raised
                THEN Raise("ValueError") /\ UNCHANGED fields
                ELSE /\ fields' = Append(fields, Seen(f))
                     /\ LET s == ScaleAfter(file_num, f.meta, f.image)
                        IN  /\ start_positions' = s[1]
                            /\ ds_factor' = s[2]
                            /\ image_dims' = s[3]
                            /\ pixel_size' = s[4]
                     /\ x_range' = out.x_range
                     /\ y_range' = out.y_range
                     /\ stitched_image' = out.image
                     /\ positions' = _get_positions(f.meta)
                     /\ x_offset' = offsets[1]
                     /\ y_offset' = offsets[2]
                     /\ file_num' = file_num + 1
                     /\ UNCHANGED <<pc, error, save_calls>>
    /\ UNCHANGED <<config, dest_created>>
    /\ UNCHANGED <<projection, batch, lookup, downsample, other_modules>>

\* file_list is exhausted: _stitch_mm_images returns stitched_image and
\* stitch_images creates save_path.parent and calls save_image
LoopEnd ==
    /\ pc = "loop"
    /\ file_num >= 1
    /\ pc' = "saved"
    /\ save_calls' = save_calls + 1
    /\ UNCHANGED <<error, config, fields, file_num, placement, scale,
                   canvas, dest_created>>
    /\ UNCHANGED <<projection, batch, lookup, downsample, other_modules>>

\* ---------------------------------------------------------- specifications
\* Spec: calls with any arguments and any metadata of the first file (pixel
\* size, binning, ROI that may or may not fit the array), on lists of up to
\* MaxCallFiles files.
\* stage position of the first file
FirstPosition == <<1, -1>>
PixelSizes == 1..MaxPixelSize
Binnings == 1..MaxBinning
MetaDims == (1..MaxMetaDim) \X (1..MaxMetaDim)
Positions == (-MaxPos..MaxPos) \X (-MaxPosY..MaxPosY)

FirstMetas ==
    {MkMeta(FirstPosition[1], FirstPosition[2], sb[1], sb[2], d[2], d[1]) :
        sb \in PixelSizes \X Binnings, d \in MetaDims}

FirstFiles ==
    {MissingMetaFile, UnreadableFile(MkMeta(FirstPosition[1], FirstPosition[2], 1, 1, 1, 1))}
    \cup {GoodFile(m, MkImage("uint16", sh[1], sh[2], "up")) :
            m \in FirstMetas, sh \in Shapes}

\* a later file's pixel size, binning and ROI: smallest or largest
LaterScales == {<<1, 1, 1>>, <<MaxPixelSize, MaxBinning, MaxMetaDim>>}

LaterMetas ==
    {MkMeta(p[1], p[2], sc[1], sc[2], sc[3], sc[3]) :
        p \in Positions, sc \in LaterScales}

LaterFiles ==
    {MissingMetaFile, UnreadableFile(MkMeta(0, 0, 1, 1, 1, 1))}
    \cup {GoodFile(m, MkImage("uint16", sh[1], sh[2], "up")) :
            m \in LaterMetas, sh \in Shapes}

Init ==
    /\ \E x_inv, y_inv, swap \in BOOLEAN : InitCall(x_inv, y_inv, swap)
    /\ NoProjection /\ NoBatch /\ NoLookup /\ NoDownsample /\ NoOtherModules

Next ==
    \/ CallEmpty
    \/ StitchMMEmpty
    \/ \E n \in Rotations : CallRotated(n)
    \/ \E f \in FirstFiles : Call(f)
    \/ LoopFirst
    \/ \E f \in LaterFiles : file_num < MaxCallFiles /\ LoopLater(f)
    \/ LoopEnd

Spec == Init /\ [][Next]_vars

\* SpecMerge: lists of up to MaxFiles files of one acquisition (metadata that
\* fits the arrays, pixel size 1, no inversion, no swap) whose arrays differ
\* in content and dtype and lie at any position around the first.
MergeImages(h, w) ==
    {MkImage("uint8", h, w, "up"), MkImage("uint8", h, w, "down"),
     MkImage("uint8", h, w, "zero"), MkImage("uint16", h, w, "high")}

\* the first file: a falling ramp of uint8 or a bright array of uint16
MergeFirstFiles ==
    {GoodFile(MkMeta(0, 0, 1, 1, sh[2], sh[1]),
              MkImage(dp[1], sh[1], sh[2], dp[2])) :
        sh \in Shapes, dp \in {<<"uint8", "down">>, <<"uint16", "high">>}}

\* later files of the list: arrays of the shape of the first
MergeLaterFiles ==
    LET h == fields[1].image.h
        w == fields[1].image.w
    IN  {GoodFile(MkMeta(p[1], p[2], 1, 1, w, h), img) :
            p \in Positions, img \in MergeImages(h, w)}

InitMerge ==
    /\ InitCall(FALSE, FALSE, FALSE)
    /\ NoProjection /\ NoBatch /\ NoLookup /\ NoDownsample /\ NoOtherModules

NextMerge ==
    \/ \E f \in MergeFirstFiles : Call(f)
    \/ LoopFirst
    \/ /\ pc = "loop"
       /\ file_num >= 1
       /\ file_num < MaxFiles
       /\ \E f \in MergeLaterFiles : LoopLater(f)
    \/ LoopEnd

SpecMerge == InitMerge /\ [][NextMerge]_vars

\* SpecSigned: lists of up to MaxFiles files of one acquisition of signed
\* 16-bit images, with negative and with positive pixel values, at any
\* position around the first.
SignedImages(h, w) ==
    {MkImage("int16", h, w, "low"), MkImage("int16", h, w, "up")}

SignedFirstFiles ==
    {GoodFile(MkMeta(0, 0, 1, 1, sh[2], sh[1]),
              MkImage("int16", sh[1], sh[2], pat)) :
        sh \in Shapes, pat \in {"low", "up"}}

SignedLaterFiles ==
    LET h == fields[1].image.h
        w == fields[1].image.w
    IN  {GoodFile(MkMeta(p[1], p[2], 1, 1, w, h), img) :
            p \in Positions, img \in SignedImages(h, w)}

InitSigned ==
    /\ InitCall(FALSE, FALSE, FALSE)
    /\ NoProjection /\ NoBatch /\ NoLookup /\ NoDownsample /\ NoOtherModules

NextSigned ==
    \/ \E f \in SignedFirstFiles : Call(f)
    \/ LoopFirst
    \/ /\ pc = "loop"
       /\ file_num >= 1
       /\ file_num < MaxFiles
       /\ \E f \in SignedLaterFiles : LoopLater(f)
    \/ LoopEnd

SpecSigned == InitSigned /\ [][NextSigned]_vars

\* SpecOffsets: _get_xy_offsets alone, as the loop calls it, for any start
\* position, position, pixel size and arguments.
StagePositions == (-MaxPos..MaxPos) \X (-MaxPos..MaxPos)
StartPositions == (-1..1) \X (-1..1)
EffectivePixelSizes == 1..(MaxPixelSize * MaxBinning)

InitOffsets ==
    /\ NoProjection /\ NoBatch /\ NoLookup /\ NoDownsample /\ NoOtherModules
    /\ \E x_inv, y_inv, swap \in BOOLEAN :
        \E start \in StartPositions, size \in EffectivePixelSizes :
            /\ pc = "offsets"
            /\ error = ""
            /\ x_inverted = x_inv
            /\ y_inverted = y_inv
            /\ swap_axes = swap
            /\ fields = << >>
            /\ file_num = 1
            /\ positions = start
            /\ x_offset = 0
            /\ y_offset = 0
            /\ start_positions = start
            /\ ds_factor = 1
            /\ image_dims = <<1, 1>>
            /\ pixel_size = size
            /\ x_range = <<0, 1>>
            /\ y_range = <<0, 1>>
            /\ stitched_image = NoImage
            /\ dest_created = FALSE
            /\ save_calls = 0

\* x_offset, y_offset = _get_xy_offsets(...) for a file at stage position p
GetXYOffsets(p) ==
    /\ pc = "offsets"
    /\ pc' = "offsets_done"
    /\ positions' = p
    /\ x_offset' = _get_xy_offsets(start_positions, p, x_inverted,
                                   y_inverted, swap_axes, pixel_size)[1]
    /\ y_offset' = _get_xy_offsets(start_positions, p, x_inverted,
                                   y_inverted, swap_axes, pixel_size)[2]
    /\ UNCHANGED <<error, config, fields, file_num, scale, canvas,
                   dest_created, save_calls>>
    /\ UNCHANGED <<projection, batch, lookup, downsample, other_modules>>

NextOffsets == \E p \in StagePositions : GetXYOffsets(p)

SpecOffsets == InitOffsets /\ [][NextOffsets]_vars

\* ------------------------------------------------ max_projections.py
\* None, the first value of max_proj
PyNone == NoImage

\* "not max_proj": True for None, the negated truth value of the only element
\* of an array of one element, ValueError (ambiguous truth value) for an
\* array of more than one element
NotMaxProj(a) ==
    IF a = PyNone THEN "True"
    ELSE IF a.h * a.w > 1 THEN "ValueError"
    ELSE IF a.px[1][1] = 0 THEN "True" ELSE "False"

\* np.max(np.array([new_image, max_proj]), 0): the element-wise maximum of
\* two arrays of one shape; arrays of different shapes do not stack
StackMax(new_image, old) ==
    IF new_image.h # old.h \/ new_image.w # old.w
    THEN [raised |-> TRUE, value |-> PyNone]
    ELSE [raised |-> FALSE,
          value |-> [dtype |-> Promote(new_image.dtype, old.dtype),
                     h |-> old.h, w |-> old.w,
                     px |-> [r \in 1..old.h |-> [c \in 1..old.w |->
                                Max2(new_image.px[r][c], old.px[r][c])]]]]

\* _update_max_proj
_update_max_proj(old, new_image) ==
    CASE NotMaxProj(old) = "True" -> [raised |-> FALSE, value |-> new_image]
      [] NotMaxProj(old) = "ValueError" -> [raised |-> TRUE, value |-> PyNone]
      [] OTHER -> StackMax(new_image, old)

\* the loop of _get_tif_max from page i on, acc the value of max_proj
RECURSIVE TifMaxFrom(_, _, _)
TifMaxFrom(image_stack, i, acc) ==
    IF acc.raised \/ i > Len(image_stack) THEN acc
    ELSE TifMaxFrom(image_stack, i + 1,
                    _update_max_proj(acc.value, image_stack[i].image))

\* _get_tif_max: the pages of the stack folded with _update_max_proj
_get_tif_max(image_stack) ==
    TifMaxFrom(image_stack, 1, [raised |-> FALSE, value |-> PyNone])

\* get_max of a TIFF file
get_max(tif) == _get_tif_max(tif)

\* the loop of _get_max_from_list from file i on
RECURSIVE MaxFromListFrom(_, _, _)
MaxFromListFrom(file_list, i, acc) ==
    IF acc.raised \/ i > Len(file_list) THEN acc
    ELSE LET new_image == get_max(file_list[i])
         IN  IF new_image.raised THEN new_image
             ELSE MaxFromListFrom(file_list, i + 1,
                      _update_max_proj(acc.value, new_image.value))

\* _get_max_from_list
_get_max_from_list(file_list) ==
    MaxFromListFrom(file_list, 1, [raised |-> FALSE, value |-> PyNone])

\* a page of a TIFF: its image and the metadata of its frame
Page(meta, image) == [meta |-> meta, image |-> image]

\* the value a call returns or the exception it raises
Return(out, kind) ==
    /\ pc' = IF out.raised THEN "raised" ELSE "returned"
    /\ error' = IF out.raised THEN kind ELSE ""
    /\ max_proj' = out.value

\* get_max(file_path) for the first file of tif_files
GetMax ==
    /\ pc = "call"
    /\ tif_files # << >>
    /\ Return(get_max(tif_files[1]), "ValueError")
    /\ UNCHANGED <<stitching, tif_files, batch, lookup, downsample, other_modules>>

\* _get_max_from_list(file_list) for the files of tif_files
GetMaxFromList ==
    /\ pc = "call"
    /\ tif_files # << >>
    /\ Return(_get_max_from_list(tif_files), "ValueError")
    /\ UNCHANGED <<stitching, tif_files, batch, lookup, downsample, other_modules>>

\* SpecMax: max projections of TIFF files of up to MaxPages pages and of
\* lists of up to MaxTifs such files, all pages of one shape.
PagePatterns == {"zero", "up", "down"}

SeqsUpTo(S, n) == UNION {[1..k -> S] : k \in 1..n}

PagesOf(h, w) ==
    {Page(MkMeta(0, 0, 1, 1, w, h), MkImage("uint16", h, w, pat)) :
        pat \in PagePatterns}

TifLists ==
    UNION {SeqsUpTo(SeqsUpTo(PagesOf(sh[1], sh[2]), MaxPages), MaxTifs) :
              sh \in Shapes}

InitMax ==
    /\ InitCall(FALSE, FALSE, FALSE)
    /\ tif_files \in TifLists
    /\ max_proj = PyNone
    /\ NoBatch /\ NoLookup /\ NoDownsample /\ NoOtherModules

NextMax == GetMax \/ GetMaxFromList

SpecMax == InitMax /\ [][NextMax]_vars

\* _get_new_image(file_path) for the k-th image file of its directory:
\* the projection of all image files of the directory when they are of one
\* Micro-Manager sequence, else of the file alone
_get_new_image(file_list, k, same_sequence) ==
    IF same_sequence THEN _get_max_from_list(file_list)
    ELSE get_max(file_list[k])

\* what an iteration of _stitch_mm_images obtains for the k-th file of a
\* directory: get_image_metadata(0), the metadata of the first frame, and
\* the array of _get_new_image or its exception
FieldOf(file_list, k, same_sequence) ==
    LET out == _get_new_image(file_list, k, same_sequence)
        image_metadata == file_list[k][1].meta
    IN  IF out.raised THEN FailingFile(image_metadata, "ValueError")
        ELSE GoodFile(image_metadata, out.value)

\* stitch_images([file_path], save_path) for the only file of tif_files
CallPages ==
    /\ Len(tif_files) = 1
    /\ Call(FieldOf(tif_files, 1, TRUE))

\* SpecPages: stitch_images on one TIFF file of MaxPages pages taken at
\* different stage positions.
PagePositions(n) ==
    {q \in [1..n -> Positions] : q[1] = <<0, 0>>}

PageStacks ==
    UNION {{[j \in 1..MaxPages |->
                Page(MkMeta(q[j][1], q[j][2], 1, 1, sh[2], sh[1]),
                     MkImage("uint16", sh[1], sh[2], pats[j]))] :
              q \in PagePositions(MaxPages),
              pats \in [1..MaxPages -> {"up", "down"}]} : sh \in Shapes}

InitPages ==
    /\ \E x_inv, y_inv, swap \in BOOLEAN : InitCall(x_inv, y_inv, swap)
    /\ \E stack \in PageStacks : tif_files = <<stack>>
    /\ max_proj = PyNone
    /\ NoBatch /\ NoLookup /\ NoDownsample /\ NoOtherModules

NextPages == CallPages \/ LoopFirst \/ LoopEnd

SpecPages == InitPages /\ [][NextPages]_vars

\* ------------------------------------------------- stitch_ls_pycro
\* the characters of the decimal digits
DigitChars == <<"0", "1", "2", "3", "4", "5", "6", "7", "8", "9">>

\* str(n) of a non-negative integer, as a sequence of characters
RECURSIVE Str(_)
Str(n) ==
    IF n < 10 THEN <<DigitChars[n + 1]>>
    ELSE Append(Str(n \div 10), DigitChars[(n % 10) + 1])

\* int(c) of one character that is a decimal digit
IntOfChar(c) == (CHOOSE i \in 1..10 : DigitChars[i] = c) - 1

\* the name of the directory of fish n: "fish{n}"
FishName(n) == <<"f", "i", "s", "h">> \o Str(n)

\* the fish passes "if fish_nums and int(fish[-1]) not in fish_nums: continue"
FishSelected(fish, nums) ==
    ~(nums # {} /\ IntOfChar(fish[Len(fish)]) \notin nums)

\* one iteration of the loop of stitch_ls_pycro over the sorted fish
\* directories: the fish is skipped or its image lists are stitched
StitchFish ==
    /\ pc = "call"
    /\ fish_dirs # << >>
    /\ fish_dirs' = Tail(fish_dirs)
    /\ stitched_fish' = IF FishSelected(Head(fish_dirs), fish_nums)
                        THEN stitched_fish \cup {Head(fish_dirs)}
                        ELSE stitched_fish
    /\ UNCHANGED <<pc, error, stitching, projection, fish_nums, lookup,
                   downsample, other_modules>>

\* the loop is over: stitch_ls_pycro returns
StitchLsPycroReturn ==
    /\ pc = "call"
    /\ fish_dirs = << >>
    /\ pc' = "returned"
    /\ UNCHANGED <<error, stitching, projection, batch, lookup, downsample, other_modules>>

\* SpecFish: stitch_ls_pycro on an acquisition of fish1..fish{MaxFish} with
\* fish_nums empty, one number, or two numbers of equal last digit.
FishNumsArgs ==
    {{}} \cup {{n} : n \in 1..MaxFish}
         \cup {{n, n + 10} : n \in 1..(MaxFish - 10)}

InitFish ==
    /\ InitCall(FALSE, FALSE, FALSE)
    /\ fish_nums \in FishNumsArgs
    /\ fish_dirs = [n \in 1..MaxFish |-> FishName(n)]
    /\ stitched_fish = {}
    /\ NoProjection /\ NoLookup /\ NoDownsample /\ NoOtherModules

NextFish == StitchFish \/ StitchLsPycroReturn

SpecFish == InitFish /\ [][NextFish]_vars

\* ------------------------------------------------------ metadata.py
\* a path: what it is (kind "missing", "file" or "dir"), what file_types
\* says of it, and the files of its directory (of the path itself when it
\* is a directory, of its parent when it is a file) in iterdir order
Path(kind, is_meta, is_img, dir_files) ==
    [kind |-> kind, is_mm_metadata |-> is_meta, is_image |-> is_img,
     dir_files |-> dir_files]

\* a file of the directory: whether it is a metadata file and whether its
\* name contains the name of file_path up to ".ome"
DirFile(is_meta, name_matches) ==
    [is_mm_metadata |-> is_meta, name_matches |-> name_matches]

\* whether "dir" is bound when _init_metadata reaches dir.iterdir()
DirBound(fp) ==
    \/ fp.kind = "file" /\ fp.is_image
    \/ fp.kind = "dir"

\* the index of the first file of a loop over the directory for which the
\* loop's test holds, 0 when it holds for none; hits[i] is the test of file i
FirstIndex(hits) ==
    IF \E i \in 1..Len(hits) : hits[i]
    THEN CHOOSE i \in 1..Len(hits) :
             hits[i] /\ \A j \in 1..(i - 1) : ~hits[j]
    ELSE 0

\* what _init_metadata loaded: nothing, file_path itself, or the i-th file
\* of the directory
NothingLoaded == [from |-> "none", index |-> 0]
PathLoaded == [from |-> "file_path", index |-> 0]
DirFileLoaded(i) == [from |-> "dir", index |-> i]

\* MMMetadata._init_metadata: the exception raised ("" for none) and the
\* file loaded ("file_path" or the index in the directory).  The first loop
\* tests is_mm_metadata(file_path), not the file of the directory.
_init_metadata(fp) ==
    IF fp.kind = "file" /\ fp.is_mm_metadata
    THEN [raised |-> "", loaded |-> PathLoaded]
    ELSE IF ~DirBound(fp)
    THEN [raised |-> "UnboundLocalError", loaded |-> NothingLoaded]
    ELSE LET dir_files == fp.dir_files
             first == FirstIndex([i \in 1..Len(dir_files) |->
                          fp.is_mm_metadata /\ dir_files[i].name_matches])
             other == FirstIndex([i \in 1..Len(dir_files) |->
                          dir_files[i].is_mm_metadata])
         IN  IF first # 0 THEN [raised |-> "", loaded |-> DirFileLoaded(first)]
             ELSE IF other # 0
             THEN [raised |-> "", loaded |-> DirFileLoaded(other)]
             ELSE [raised |-> "FileNotFoundError", loaded |-> NothingLoaded]

\* MMMetadata(file_path): the constructor, for a well-formed metadata file
NewMMMetadata ==
    /\ pc = "call"
    /\ file_path.kind # "none"
    /\ LET out == _init_metadata(file_path)
       IN  /\ pc' = IF out.raised # "" THEN "raised" ELSE "returned"
           /\ error' = out.raised
           /\ metadata_file' = out.loaded
    /\ UNCHANGED <<stitching, projection, batch, file_path, is_mm_result,
                   downsample, other_modules>>

\* is_mm(file_path): True when MMMetadata is constructed, False when it
\* raises FileNotFoundError; any other exception propagates
IsMM ==
    /\ pc = "call"
    /\ file_path.kind # "none"
    /\ LET out == _init_metadata(file_path)
       IN  /\ pc' = IF out.raised \in {"", "FileNotFoundError"}
                    THEN "returned" ELSE "raised"
           /\ error' = IF out.raised = "FileNotFoundError" THEN ""
                       ELSE out.raised
           /\ is_mm_result' = CASE out.raised = "" -> "True"
                                 [] out.raised = "FileNotFoundError" -> "False"
                                 [] OTHER -> ""
           /\ metadata_file' = out.loaded
    /\ UNCHANGED <<stitching, projection, batch, file_path, downsample, other_modules>>

\* SpecMeta: MMMetadata and is_mm on a path that does not exist, on a
\* metadata file, an image file, another file, and a directory, with up to
\* MaxDirFiles files in the directory.
DirFiles == {DirFile(m, n) : m, n \in BOOLEAN}

DirLists == UNION {[1..k -> DirFiles] : k \in 0..MaxDirFiles}

\* the directory of a file holds the file
Holding(self) == {l \in DirLists : \E i \in 1..Len(l) : l[i] = self}

Paths ==
    {Path("missing", m, i, << >>) : m, i \in BOOLEAN}
    \cup {Path("file", TRUE, FALSE, l) : l \in Holding(DirFile(TRUE, TRUE))}
    \cup {Path("file", FALSE, TRUE, l) : l \in Holding(DirFile(FALSE, TRUE))}
    \cup {Path("file", FALSE, FALSE, l) : l \in Holding(DirFile(FALSE, TRUE))}
    \cup {Path("dir", FALSE, FALSE, l) : l \in DirLists}

InitMeta ==
    /\ InitCall(FALSE, FALSE, FALSE)
    /\ file_path \in Paths
    /\ metadata_file = NothingLoaded
    /\ is_mm_result = ""
    /\ NoProjection /\ NoBatch /\ NoDownsample /\ NoOtherModules

NextMeta == NewMMMetadata \/ IsMM

SpecMeta == InitMeta /\ [][NextMeta]_vars

\* ------------------------------------------- stitching.py, field loading
\* "sub in s" of two strings, as sequences of characters
Contains(sub, str) ==
    \E i \in 1..(Len(str) - Len(sub) + 1) :
        SubSeq(str, i, i + Len(sub) - 1) = sub

\* FileSubtype.OME.value
OME == <<".", "o", "m", "e">>

\* get_reduced_filename: filename.split(".ome")[0], the name up to its
\* first ".ome", the whole name when it has none
get_reduced_filename(filename) ==
    IF Contains(OME, filename)
    THEN LET at == CHOOSE i \in 1..Len(filename) :
                      /\ SubSeq(filename, i, i + Len(OME) - 1) = OME
                      /\ \A j \in 1..(i - 1) :
                             SubSeq(filename, j, j + Len(OME) - 1) # OME
         IN  SubSeq(filename, 1, at - 1)
    ELSE filename

\* is_mm(file_path) of a path for which MMMetadata returns or raises
\* FileNotFoundError
is_mm(fp) == _init_metadata(fp).raised = ""

\* from_same_mm_sequence(file_list): names are the names of file_list and
\* first_file describes file_list[0]
from_same_mm_sequence(names, first_file) ==
    IF is_mm(first_file)
    THEN LET first_name == get_reduced_filename(names[1])
         IN  \A i \in 2..Len(names) :
                 LET filename == get_reduced_filename(names[i])
                 IN  Contains(filename, first_name)
                         \/ Contains(first_name, filename)
    ELSE FALSE

\* _get_new_image(file_path) for the file_index-th image file of the
\* directory whose image files are tif_files, named file_names
GetNewImage ==
    /\ pc = "call"
    /\ file_names # << >>
    /\ Return(_get_new_image(tif_files, file_index,
                             from_same_mm_sequence(file_names, file_path)),
              "ValueError")
    /\ UNCHANGED <<stitching, tif_files, batch, lookup, downsample, frames,
                   median, more_modules>>

\* SpecField: _get_new_image on directories of up to MaxTifs image files
\* of one or of several acquisitions, with and without a metadata file.
\* the names a.ome.tif, a.tif, a_1.ome.tif and b.ome.tif in natsorted order
SortedNames ==
    <<(<<"a", ".", "o", "m", "e", ".", "t", "i", "f">>),
      (<<"a", ".", "t", "i", "f">>),
      (<<"a", "_", "1", ".", "o", "m", "e", ".", "t", "i", "f">>),
      (<<"b", ".", "o", "m", "e", ".", "t", "i", "f">>)>>

\* the natsorted lists of n of these names
NameLists(n) ==
    {[i \in 1..n |-> SortedNames[pick[i]]] :
        pick \in {q \in [1..n -> 1..Len(SortedNames)] :
                     \A i \in 1..(n - 1) : q[i] < q[i + 1]}}

\* the first image file of a directory with or without a metadata file
FirstImagePaths ==
    {Path("file", FALSE, TRUE, <<DirFile(FALSE, TRUE)>>),
     Path("file", FALSE, TRUE, <<DirFile(FALSE, TRUE), DirFile(TRUE, TRUE)>>)}

InitField ==
    /\ InitCall(FALSE, FALSE, FALSE)
    /\ tif_files \in TifLists
    /\ max_proj = PyNone
    /\ file_names \in NameLists(Len(tif_files))
    /\ file_index \in 1..Len(tif_files)
    /\ file_path \in FirstImagePaths
    /\ metadata_file = NothingLoaded
    /\ is_mm_result = ""
    /\ NoBatch /\ NoDownsample /\ NoFrames /\ NoMedian /\ NoCoords /\ NoPool

NextField == GetNewImage

SpecField == InitField /\ [][NextField]_vars

\* ------------------------------------------------- png_conversion.py
\* get_dimensions_dict: the non-image dimensions and their axis codes, both
\* reversed, as the items of the dict in insertion order
get_dimensions_dict(srs) ==
    LET n == Len(srs.shape)
    IN  [i \in 1..n |-> <<srs.axes[n + 1 - i], srs.shape[n + 1 - i]>>]

\* the loop of get_coords_dict from item i on: divmod of the quotient by the
\* item's dimension, the remainder stored, the loop left at quotient 0
RECURSIVE CoordsFrom(_, _, _, _)
CoordsFrom(items, i, quotient, acc) ==
    IF i > Len(items) THEN acc
    ELSE LET q == quotient \div items[i][2]
             remainder == quotient % items[i][2]
             next == Append(acc, <<items[i][1], remainder>>)
         IN  IF q = 0 THEN next ELSE CoordsFrom(items, i + 1, q, next)

\* get_coords_dict: the items of coords_dict in insertion order
get_coords_dict(srs, num) ==
    CoordsFrom(get_dimensions_dict(srs), 1, num, << >>)

\* coords_dict[key] if key is in coords_dict.keys(), else 0
CoordOf(cd, key) ==
    IF \E i \in 1..Len(cd) : cd[i][1] = key
    THEN cd[CHOOSE i \in 1..Len(cd) : cd[i][1] = key][2]
    ELSE 0

\* the format {n:03d}: str(n) padded with zeros to three characters
Format03d(n) ==
    LET digits == Str(n)
    IN  [i \in 1..(3 - Len(digits)) |-> "0"] \o digits

\* get_new_file_name, the name as a sequence of its parts
get_new_file_name(filename_no_extension, cd) ==
    <<filename_no_extension, "_channel">> \o Format03d(CoordOf(cd, "C"))
        \o <<"_position">> \o Format03d(CoordOf(cd, "P"))
        \o <<"_time">> \o Format03d(CoordOf(cd, "T"))
        \o <<"_z">> \o Format03d(CoordOf(cd, "Z"))

\* coords_dict = get_coords_dict(series, page_num)
GetCoordsDict ==
    /\ pc = "call"
    /\ series.axes # << >>
    /\ pc' = "coords"
    /\ coords_dict' = get_coords_dict(series, page_num)
    /\ UNCHANGED <<error, stitching, projection, batch, lookup, downsample,
                   frames, median, loading, series, page_num, new_file_name,
                   pool>>

\* new_file_name = get_new_file_name(filename_no_extension, coords_dict)
GetNewFileName ==
    /\ pc = "coords"
    /\ pc' = "returned"
    /\ new_file_name' = get_new_file_name("stack", coords_dict)
    /\ UNCHANGED <<error, stitching, projection, batch, lookup, downsample,
                   frames, median, loading, series, page_num, coords_dict,
                   pool>>

\* SpecCoords: the naming of a page of a stack of up to MaxAxes non-image
\* axes of up to MaxAxisLen planes each.
MaxAxes == 2
MaxAxisLen == 3

\* axis codes a series of tifffile can carry besides those of the image:
\* channel, phase, time, depth, region and image sequence
AxisCodes == {"C", "P", "T", "Z", "R", "I"}

\* product of the dimensions of a shape
RECURSIVE Product(_)
Product(shape) ==
    IF shape = << >> THEN 1 ELSE Head(shape) * Product(Tail(shape))

SeriesOf(n) ==
    {[axes |-> a, shape |-> sh] :
        a \in {q \in [1..n -> AxisCodes] :
                  \A i, j \in 1..n : i # j => q[i] # q[j]},
        sh \in [1..n -> 1..MaxAxisLen]}

InitCoords ==
    /\ InitCall(FALSE, FALSE, FALSE)
    /\ series \in UNION {SeriesOf(n) : n \in 1..MaxAxes}
    /\ page_num \in 0..(Product(series.shape) - 1)
    /\ coords_dict = << >>
    /\ new_file_name = << >>
    /\ NoProjection /\ NoBatch /\ NoLookup /\ NoDownsample
    /\ NoFrames /\ NoMedian /\ NoLoading /\ NoPool

NextCoords == GetCoordsDict \/ GetNewFileName

SpecCoords == InitCoords /\ [][NextCoords]_vars

\* --------------------------------- png_conversion.py, the worker pool
\* a (root, filename) tuple: the root directory, whether the TIFF is of
\* Micro-Manager and the number of its pages; a TIFF of one page is a
\* single image (a series of two dimensions)
FilePathTuple(root, is_micromanager, pages) ==
    [root |-> root, is_micromanager |-> is_micromanager, pages |-> pages]

Tasks == 1..Len(file_path_tuples)

\* the files of the list that lie in the root of task t
InRootOf(t) ==
    {f \in Tasks : file_path_tuples[f].root = file_path_tuples[t].root}

\* a step of task t: its position changes, other tasks stay where they are
TaskGoes(t, to) == task_pc' = [task_pc EXCEPT ![t] = to]

\* the exception leaves png_conversion_task
TaskRaises(t) == TaskGoes(t, "raised")

\* stack = TiffFile(file_path) and the test of is_micromanager: a file that
\* is gone raises FileNotFoundError, a file not of Micro-Manager ends the task
TaskOpen(t) ==
    /\ pc = "call"
    /\ task_pc[t] = "start"
    /\ IF ~tif_present[t] THEN TaskRaises(t)
       ELSE IF ~file_path_tuples[t].is_micromanager THEN TaskGoes(t, "done")
       ELSE TaskGoes(t, "save")
    /\ UNCHANGED <<pc, error, stitching, projection, batch, lookup,
                   downsample, frames, median, loading, coords,
                   file_path_tuples, tif_present, root_present, task_page,
                   rmtree_left>>

\* io.imsave of a single image
TaskSaveSingle(t) ==
    /\ pc = "call"
    /\ task_pc[t] = "save"
    /\ file_path_tuples[t].pages = 1
    /\ task_page' = [task_page EXCEPT ![t] = 1]
    /\ TaskGoes(t, "rmtree")
    /\ UNCHANGED <<pc, error, stitching, projection, batch, lookup,
                   downsample, frames, median, loading, coords,
                   file_path_tuples, tif_present, root_present, rmtree_left>>

\* one iteration of the loop over stack.pages: io.imsave of the page; the
\* open file is read whether or not its name still exists
TaskSavePage(t) ==
    /\ pc = "call"
    /\ task_pc[t] = "save"
    /\ file_path_tuples[t].pages > 1
    /\ task_page' = [task_page EXCEPT ![t] = @ + 1]
    /\ IF task_page'[t] = file_path_tuples[t].pages
       THEN TaskGoes(t, "rmtree")
       ELSE UNCHANGED task_pc
    /\ UNCHANGED <<pc, error, stitching, projection, batch, lookup,
                   downsample, frames, median, loading, coords,
                   file_path_tuples, tif_present, root_present, rmtree_left>>

\* shutil.rmtree(root) lists the directory: FileNotFoundError when it is gone
TaskRmtreeScan(t) ==
    /\ pc = "call"
    /\ task_pc[t] = "rmtree"
    /\ IF ~root_present[file_path_tuples[t].root]
       THEN TaskRaises(t) /\ UNCHANGED rmtree_left
       ELSE /\ TaskGoes(t, "unlink")
            /\ rmtree_left' = [rmtree_left EXCEPT ![t] =
                                  {f \in InRootOf(t) : tif_present[f]}]
    /\ UNCHANGED <<pc, error, stitching, projection, batch, lookup,
                   downsample, frames, median, loading, coords,
                   file_path_tuples, tif_present, root_present, task_page>>

\* shutil.rmtree(root) deletes one of the files it listed: FileNotFoundError
\* when another rmtree has deleted it in between
TaskRmtreeUnlink(t, f) ==
    /\ pc = "call"
    /\ task_pc[t] = "unlink"
    /\ f \in rmtree_left[t]
    /\ IF ~tif_present[f]
       THEN TaskRaises(t) /\ UNCHANGED <<tif_present, rmtree_left>>
       ELSE /\ tif_present' = [tif_present EXCEPT ![f] = FALSE]
            /\ rmtree_left' = [rmtree_left EXCEPT ![t] = @ \ {f}]
            /\ UNCHANGED task_pc
    /\ UNCHANGED <<pc, error, stitching, projection, batch, lookup,
                   downsample, frames, median, loading, coords,
                   file_path_tuples, root_present, task_page>>

\* shutil.rmtree(root) removes the emptied directory
TaskRmtreeRmdir(t) ==
    /\ pc = "call"
    /\ task_pc[t] = "unlink"
    /\ rmtree_left[t] = {}
    /\ IF ~root_present[file_path_tuples[t].root]
       THEN TaskRaises(t) /\ UNCHANGED root_present
       ELSE /\ root_present' =
                   [root_present EXCEPT ![file_path_tuples[t].root] = FALSE]
            /\ TaskGoes(t, "removedirs")
    /\ UNCHANGED <<pc, error, stitching, projection, batch, lookup,
                   downsample, frames, median, loading, coords,
                   file_path_tuples, tif_present, task_page, rmtree_left>>

\* os.removedirs(root): the directory that rmtree removed is not found
TaskRemovedirs(t) ==
    /\ pc = "call"
    /\ task_pc[t] = "removedirs"
    /\ IF ~root_present[file_path_tuples[t].root]
       THEN TaskRaises(t)
       ELSE TaskGoes(t, "done")
    /\ UNCHANGED <<pc, error, stitching, projection, batch, lookup,
                   downsample, frames, median, loading, coords,
                   file_path_tuples, tif_present, root_present, task_page,
                   rmtree_left>>

\* pool.map returns when every task has ended and raises the exception of
\* a task that raised
PoolMapReturns ==
    /\ pc = "call"
    /\ Tasks # {}
    /\ \A t \in Tasks : task_pc[t] \in {"done", "raised"}
    /\ IF \E t \in Tasks : task_pc[t] = "raised"
       THEN pc' = "raised" /\ error' = "FileNotFoundError"
       ELSE pc' = "returned" /\ UNCHANGED error
    /\ UNCHANGED <<stitching, projection, batch, lookup, downsample, frames,
                   median, more_modules>>

\* SpecPool: pool.map over lists of up to MaxTasks TIFF files of up to
\* MaxStackPages pages in up to MaxRoots root directories, the tasks
\* running on workers of their own in any interleaving.
MaxTasks == 2
MaxStackPages == 2
MaxRoots == 2

FilePathTuples ==
    {FilePathTuple(r, m, n) :
        r \in 1..MaxRoots, m \in BOOLEAN, n \in 1..MaxStackPages}

InitPool ==
    /\ InitCall(FALSE, FALSE, FALSE)
    /\ file_path_tuples \in
           UNION {[1..n -> FilePathTuples] : n \in 1..MaxTasks}
    /\ tif_present = [t \in Tasks |-> TRUE]
    /\ root_present = [r \in 1..MaxRoots |-> TRUE]
    /\ task_pc = [t \in Tasks |-> "start"]
    /\ task_page = [t \in Tasks |-> 0]
    /\ rmtree_left = [t \in Tasks |-> {}]
    /\ NoProjection /\ NoBatch /\ NoLookup /\ NoDownsample
    /\ NoFrames /\ NoMedian /\ NoLoading /\ NoCoords

NextPool ==
    \/ \E t \in Tasks : TaskOpen(t)
    \/ \E t \in Tasks : TaskSaveSingle(t)
    \/ \E t \in Tasks : TaskSavePage(t)
    \/ \E t \in Tasks : TaskRmtreeScan(t)
    \/ \E t, f \in Tasks : TaskRmtreeUnlink(t, f)
    \/ \E t \in Tasks : TaskRmtreeRmdir(t)
    \/ \E t \in Tasks : TaskRemovedirs(t)
    \/ PoolMapReturns

SpecPool == InitPool /\ [][NextPool]_vars

\* ------------------------------------------- metadata.py, image metadata
\* MMMetadata.get_image_metadata(n): MMImageMetadata(self, n), which reads
\* the entry of frame_keys[n]
get_image_metadata(frame_entries, n) ==
    MMImageMetadata(n, frame_entries[n + 1].ZPositionUm)

\* image_metadata = metadata.get_image_metadata(image_index)
GetImageMetadata ==
    /\ pc = "call"
    /\ mm_frames # << >>
    /\ pc' = "returned"
    /\ frame_metadata' = get_image_metadata(mm_frames, image_index)
    /\ UNCHANGED <<error, stitching, projection, batch, lookup, downsample,
                   mm_frames, image_index, item_value, median,
                   more_modules>>

\* image_metadata["ZPositionUm"], as the test reads it: MMImageMetadata
\* defines no __getitem__ and the subscript raises TypeError
GetItem ==
    /\ pc = "returned"
    /\ mm_frames # << >>
    /\ pc' = "raised"
    /\ error' = "TypeError"
    /\ UNCHANGED <<stitching, projection, batch, lookup, downsample, frames,
                   median, more_modules>>

\* SpecFrames: get_image_metadata on metadata files of up to MaxFrames
\* frames, for every index of a frame.
FrameEntries == {[ZPositionUm |-> z] : z \in 0..MaxZ}

FrameLists == UNION {[1..k -> FrameEntries] : k \in 1..MaxFrames}

InitFrames ==
    /\ InitCall(FALSE, FALSE, FALSE)
    /\ mm_frames \in FrameLists
    /\ image_index \in 0..(MaxFrames - 1)
    /\ image_index < Len(mm_frames)
    /\ frame_metadata = MMImageMetadata(0, 0)
    /\ item_value = 0
    /\ NoProjection /\ NoBatch /\ NoLookup /\ NoDownsample /\ NoMedian
    /\ NoMoreModules

NextFrames == GetImageMetadata \/ GetItem

SpecFrames == InitFrames /\ [][NextFrames]_vars

\* ------------------------------------------- background_subtraction.py
\* the pixels of an array in row-major order
Flatten(a) ==
    [k \in 1..(a.h * a.w) |-> a.px[((k - 1) \div a.w) + 1][((k - 1) % a.w) + 1]]

\* the k-th smallest element of a non-empty sequence of numbers
KthSmallest(values, k) ==
    CHOOSE v \in {values[i] : i \in 1..Len(values)} :
        /\ Cardinality({i \in 1..Len(values) : values[i] < v}) < k
        /\ Cardinality({i \in 1..Len(values) : values[i] <= v}) >= k

\* int(x/2) of Python: truncation toward zero
TruncHalf(x) == IF x >= 0 THEN x \div 2 ELSE -((-x) \div 2)

\* int(np.median(image)): the middle element, or the mean of the two middle
\* elements, truncated
IntMedian(a) ==
    LET values == Flatten(a)
        n == Len(values)
    IN  IF n % 2 = 1 THEN KthSmallest(values, (n + 1) \div 2)
        ELSE TruncHalf(KthSmallest(values, n \div 2)
                       + KthSmallest(values, (n \div 2) + 1))

\* one pixel of get_median_subtracted_image: cast to int16, the background
\* subtracted in int16, a negative value set to 0, cast back to dtype
SubtractedPixel(v, background, dtype) ==
    LET less == Cast(Cast(v, "int16") - background, "int16")
    IN  Cast(IF less < 0 THEN 0 ELSE less, dtype)

\* get_median_subtracted_image, for a background that the in-place
\* subtraction accepts
get_median_subtracted_image(image) ==
    [raised |-> "",
     value |-> [dtype |-> image.dtype, h |-> image.h, w |-> image.w,
                px |-> [r \in 1..image.h |-> [c \in 1..image.w |->
                          SubtractedPixel(image.px[r][c], IntMedian(image),
                                          image.dtype)]]]]

\* "image -= background" when int16 does not represent the background: the
\* numpy build either refuses the Python integer (OverflowError) or
\* computes in a wider type and wraps
SubtractOutcomes(image) ==
    IF IntMedian(image) > 32767
    THEN {[raised |-> "OverflowError", value |-> NoImage],
          get_median_subtracted_image(image)}
    ELSE {get_median_subtracted_image(image)}

\* a call of get_median_subtracted_image(median_image)
GetMedianSubtractedImage ==
    /\ pc = "call"
    /\ median_image # NoImage
    /\ \E out \in SubtractOutcomes(median_image) :
          /\ pc' = IF out.raised # "" THEN "raised" ELSE "returned"
          /\ error' = out.raised
          /\ subtracted_image' = out.value
    /\ UNCHANGED <<stitching, projection, batch, lookup, downsample, frames,
                   median_image, more_modules>>

\* SpecMedian: get_median_subtracted_image on images of up to
\* MaxMedianPixels pixels of uint8 and of uint16, with values at the ends
\* and in the middle of the dtype's range.
MedianValues(dtype) ==
    IF dtype = "uint8" THEN {0, 1, 100, 255}
    ELSE {0, 1, 100, 32767, 32768, 65535}

MedianImages ==
    UNION {{[dtype |-> dtype, h |-> 1, w |-> n, px |-> <<row>>] :
              row \in [1..n -> MedianValues(dtype)]} :
           dtype \in {"uint8", "uint16"}, n \in 1..MaxMedianPixels}

InitMedian ==
    /\ InitCall(FALSE, FALSE, FALSE)
    /\ median_image \in MedianImages
    /\ subtracted_image = NoImage
    /\ NoProjection /\ NoBatch /\ NoLookup /\ NoDownsample /\ NoFrames
    /\ NoMoreModules

NextMedian == GetMedianSubtractedImage

SpecMedian == InitMedian /\ [][NextMedian]_vars

\* --------------------------------------------------- downsampling.py
\* mutant: the 1s are appended after the two factors
AppendOnes(downsample_list, n) ==
    downsample_list \o [i \in 1..n |-> 1]

\* "for dim in range(n): downsample_list.insert(0, 1)"
RECURSIVE InsertOnes(_, _)
InsertOnes(downsample_list, n) ==
    IF n <= 0 THEN downsample_list
    ELSE InsertOnes(<<1>> \o downsample_list, n - 1)

\* _get_downsample_tuple
_get_downsample_tuple(num_dims, factor) ==
    IF num_dims > 2 THEN InsertOnes(<<factor, factor>>, num_dims - 2)
    ELSE <<factor, factor>>

\* a call of _get_downsample_tuple(image_num_dims, ds_factor)
GetDownsampleTuple ==
    /\ pc = "call"
    /\ pc' = "returned"
    /\ downsample_tuple' =
           _get_downsample_tuple(image_num_dims, downsample_factor)
    /\ UNCHANGED <<error, stitching, projection, batch, lookup,
                   image_num_dims, downsample_factor, other_modules>>

\* SpecDownsample: _get_downsample_tuple for arrays of up to MaxNdim
\* dimensions and factors up to MaxFactor.
InitDownsample ==
    /\ InitCall(FALSE, FALSE, FALSE)
    /\ image_num_dims \in 0..MaxNdim
    /\ downsample_factor \in 1..MaxFactor
    /\ downsample_tuple = << >>
    /\ NoProjection /\ NoBatch /\ NoLookup /\ NoOtherModules

NextDownsample == GetDownsampleTuple

SpecDownsample == InitDownsample /\ [][NextDownsample]_vars

\* ------------------------------------------------------------------ claims
\* the pixel offsets of the i-th merged file relative to the first
OffsetOf(i) ==
    IF i = 1 THEN <<0, 0>>
    ELSE _get_xy_offsets(start_positions, _get_positions(fields[i].meta),
                         x_inverted, y_inverted, swap_axes, pixel_size)

\* canvas column and row just before the array of the i-th merged file
LeftOf(i) == OffsetOf(i)[1] - x_range[1]
TopOf(i) == OffsetOf(i)[2] - y_range[1]

\* the array of the i-th merged file covers canvas pixel (r, c)
Covers(i, r, c) ==
    /\ r > TopOf(i) /\ r <= TopOf(i) + fields[i].image.h
    /\ c > LeftOf(i) /\ c <= LeftOf(i) + fields[i].image.w

\* the value the i-th merged file has at canvas pixel (r, c)
ValueAt(i, r, c) == fields[i].image.px[r - TopOf(i)][c - LeftOf(i)]

Covering(r, c) == {i \in 1..file_num : Covers(i, r, c)}

MaxOf(S) == CHOOSE m \in S : \A v \in S : m >= v

\* every covered canvas pixel holds the maximum of the files covering it
MaxMerged ==
    \A r \in 1..stitched_image.h, c \in 1..stitched_image.w :
        Covering(r, c) # {} =>
            stitched_image.px[r][c]
                = MaxOf({ValueAt(i, r, c) : i \in Covering(r, c)})

\* every pixel value of the merged files fits the dtype of the first
Representable ==
    \A i \in 1..file_num :
        \A r \in 1..fields[i].image.h, c \in 1..fields[i].image.w :
            Cast(fields[i].image.px[r][c], fields[1].image.dtype)
                = fields[i].image.px[r][c]

\* C1 as stated: after any sequence of placements of non-negative fields of
\* the first field's shape, every covered canvas pixel equals the maximum of
\* the values of the fields covering it.
C1_MaxMergeAnyFields == file_num >= 1 => MaxMerged

\* C1 as amended: the same, for fields whose pixel values the dtype of the
\* first field can represent.
C1_MaxMerge == (file_num >= 1 /\ Representable) => MaxMerged

\* C1 witness: three merged fields, a pixel where the earlier of two
\* overlapping fields is the brighter and a pixel where the later one is.
C1_Witness ==
    /\ file_num = 3
    /\ Representable
    /\ \E r \in 1..stitched_image.h, c \in 1..stitched_image.w :
           /\ {1, 2} \subseteq Covering(r, c)
           /\ ValueAt(1, r, c) > ValueAt(2, r, c)
    /\ \E r \in 1..stitched_image.h, c \in 1..stitched_image.w :
           /\ {1, 2} \subseteq Covering(r, c)
           /\ ValueAt(1, r, c) < ValueAt(2, r, c)

\* C2 as stated: once the first field has set the canvas, and after every
\* placement, the canvas shape is (y_range[1]-y_range[0],
\* x_range[1]-x_range[0]), whatever the array shape and the metadata ROI.
C2_CanvasShape ==
    file_num >= 1 =>
        /\ stitched_image.h = y_range[2] - y_range[1]
        /\ stitched_image.w = x_range[2] - x_range[1]

\* C3: save_image is called at most once, only after every file has been
\* read and merged without an exception, and never in a call that raised.
C3_NoPartialSave ==
    /\ save_calls <= 1
    /\ save_calls = 1 =>
           /\ pc = "saved"
           /\ error = ""
           /\ file_num = Len(fields)
           /\ \A i \in 1..Len(fields) : fields[i].meta_ok /\ fields[i].load_ok
    /\ (pc = "raised" \/ error # "") => save_calls = 0

\* C3 witness: the image is saved after two files were merged.
C3_Witness == pc = "saved" /\ file_num = 2 /\ save_calls = 1

\* C4: start position, downsample factor, field dimensions and pixel size
\* (metadata pixel size * binning * downsample factor) are those of the first
\* file, no later iteration changes them, and every later offset is taken
\* from the first file's stage position with that pixel size.
C4_ScaleOfFirst ==
    file_num >= 1 =>
        LET m == fields[1].meta
            ds == IF fields[1].image.h # m.image_height
                  THEN m.image_height \div fields[1].image.h ELSE 1
        IN  /\ start_positions = <<m.x_pos, m.y_pos>>
            /\ ds_factor = ds
            /\ image_dims = <<m.image_height \div ds, m.image_width \div ds>>
            /\ pixel_size = m.pixel_size * m.binning * ds
            /\ file_num >= 2 =>
                   <<x_offset, y_offset>> =
                       _get_xy_offsets(<<m.x_pos, m.y_pos>>, positions,
                                       x_inverted, y_inverted, swap_axes,
                                       m.pixel_size * m.binning * ds)

\* C4 as a property: the above holds in every state and no step after the
\* first iteration changes the four values.
C4_ScaleFixed ==
    /\ []C4_ScaleOfFirst
    /\ [][file_num >= 1 => UNCHANGED scale]_vars

\* C4 witness: a second file was merged on a downsampled first field with a
\* pixel size of its own.
C4_Witness ==
    /\ pc = "loop"
    /\ file_num = 2
    /\ ds_factor = 2
    /\ pixel_size > 2
    /\ x_offset # 0

\* o is the integer nearest to num/den (den > 0), the even one of the two
\* when num/den lies exactly between two integers
NearestTiesEven(num, den, o) ==
    LET d == 2 * num - 2 * o * den
    IN  /\ -den <= d
        /\ d <= den
        /\ (d = den \/ d = -den) => o % 2 = 0

\* stage deltas of the file just placed
DeltaX == positions[1] - start_positions[1]
DeltaY == positions[2] - start_positions[2]

\* C5: without inversion and swap each offset is the integer nearest to
\* (end - start)/pixel_size, halves going to the even neighbour (0.5 -> 0,
\* 1.5 -> 2, -0.5 -> 0); a delta of exactly k pixel sizes in x and none in y
\* gives the offset (k, 0).
C5_PixelOffset ==
    (pc = "offsets_done" /\ ~x_inverted /\ ~y_inverted /\ ~swap_axes) =>
        /\ NearestTiesEven(DeltaX, pixel_size, x_offset)
        /\ NearestTiesEven(DeltaY, pixel_size, y_offset)
        /\ (2 * DeltaX = pixel_size) => x_offset = 0
        /\ (2 * DeltaX = 3 * pixel_size) => x_offset = 2
        /\ (2 * DeltaX = -pixel_size) => x_offset = 0
        /\ \A k \in -(2 * MaxPos)..(2 * MaxPos) :
               (DeltaX = k * pixel_size /\ DeltaY = 0) =>
                   <<x_offset, y_offset>> = <<k, 0>>

\* C5 witness: a quotient of exactly 1.5 was rounded to 2.
C5_Witness ==
    /\ pc = "offsets_done"
    /\ ~x_inverted /\ ~y_inverted /\ ~swap_axes
    /\ 2 * DeltaX = 3 * pixel_size
    /\ x_offset = 2
    /\ 2 * DeltaY = -pixel_size
    /\ y_offset = 0

\* C6: with x_inverted and no swap, the x offset of a placed field is the
\* negation of the offset without inversion and the y offset is the same; a
\* second field k > 0 pixels further in stage x makes the canvas k columns
\* wider on the left: the first field lies k columns to the right and the
\* second field starts at column 0.
C6_InvertX ==
    (pc = "loop" /\ file_num >= 2 /\ x_inverted /\ ~swap_axes) =>
        LET plain == _get_xy_offsets(start_positions, positions, FALSE,
                                     y_inverted, FALSE, pixel_size)
            first == fields[1].image
            k == -x_offset
            top1 == Max2(0, -y_offset)
            top2 == Max2(0, y_offset)
        IN  /\ x_offset = -plain[1]
            /\ y_offset = plain[2]
            /\ (file_num = 2 /\ k > 0) =>
                   /\ x_range = <<-k, image_dims[2]>>
                   /\ stitched_image.w = first.w + k
                   /\ \A r \in 1..first.h, c \in 1..first.w :
                          stitched_image.px[top1 + r][k + c] =
                              IF Covers(2, top1 + r, k + c)
                              THEN Max2(first.px[r][c],
                                        ValueAt(2, top1 + r, k + c))
                              ELSE first.px[r][c]
                   /\ \A r \in 1..fields[2].image.h,
                         c \in 1..fields[2].image.w :
                          stitched_image.px[top2 + r][c]
                              >= fields[2].image.px[r][c]

\* C6 witness: x inverted, the second field two pixels further in stage x,
\* the canvas two columns wider with the first field's first pixel in its
\* third column.
C6_Witness ==
    /\ pc = "loop"
    /\ file_num = 2
    /\ x_inverted /\ ~swap_axes
    /\ DeltaX = 2 * pixel_size
    /\ x_offset = -2
    /\ x_range[1] = -2
    /\ stitched_image.w = fields[1].image.w + 2
    /\ fields[1].image.w = 2

\* C7: the offset of the stage x axis, negated iff x_inverted, and that of the
\* stage y axis, negated iff y_inverted, are returned as (x, y) without swap
\* and as (y, x) with swap: with swap the x_inverted flag acts on the value
\* used as row offset.
C7_SwapAxes ==
    pc = "offsets_done" =>
        LET of_stage_x == IF swap_axes THEN y_offset ELSE x_offset
            of_stage_y == IF swap_axes THEN x_offset ELSE y_offset
        IN  /\ NearestTiesEven(DeltaX, pixel_size,
                   IF x_inverted THEN -of_stage_x ELSE of_stage_x)
            /\ NearestTiesEven(DeltaY, pixel_size,
                   IF y_inverted THEN -of_stage_y ELSE of_stage_y)

\* C7 witness: axes swapped and only x inverted, a positive stage x delta and
\* a positive stage y delta: the row offset is the negated x delta.
C7_Witness ==
    /\ pc = "offsets_done"
    /\ swap_axes /\ x_inverted /\ ~y_inverted
    /\ DeltaX = 2 * pixel_size
    /\ DeltaY = pixel_size
    /\ y_offset = -2
    /\ x_offset = 1

\* C8: a placement never raises the lower bound of a range nor lowers the
\* upper bound; the ranges it leaves are the hull of the ranges the placement
\* before left and the new field's range; no other step changes them.
C8_PlacementStep ==
    IF file_num >= 1 /\ file_num' = file_num + 1
    THEN /\ x_range'[1] <= x_range[1]
         /\ x_range'[2] >= x_range[2]
         /\ y_range'[1] <= y_range[1]
         /\ y_range'[2] >= y_range[2]
         /\ x_range' = <<Min2(x_range[1], x_offset'),
                         Max2(x_range[2], x_offset' + image_dims[2])>>
         /\ y_range' = <<Min2(y_range[1], y_offset'),
                         Max2(y_range[2], y_offset' + image_dims[1])>>
    ELSE file_num >= 1 => UNCHANGED <<x_range, y_range>>

\* C8 as a property: every step is such a step.
C8_RangesGrow == [][C8_PlacementStep]_vars

\* C8 witness: after two placements the x range has grown on both sides and
\* the y range on one, the second placement lying inside the x range the
\* first one left.
C8_Witness ==
    /\ file_num = 3
    /\ x_range[1] < 0
    /\ x_range[2] > image_dims[2]
    /\ y_range[1] < 0
    /\ x_offset > x_range[1]

\* C9: the canvas keeps the integer dtype of the first field through every
\* placement, with or without extensions, whatever the dtype of later fields.
C9_DtypeKept ==
    file_num >= 1 => stitched_image.dtype = fields[1].image.dtype

\* C9 witness: a saved canvas of a uint8 first field that was extended to the
\* left and to the bottom and merged with a uint16 field.
C9_Witness ==
    /\ pc = "saved"
    /\ file_num = 3
    /\ fields[1].image.dtype = "uint8"
    /\ fields[3].image.dtype = "uint16"
    /\ x_range[1] < 0
    /\ y_range[2] > image_dims[1]
    /\ stitched_image.dtype = "uint8"

\* C10: a list of one file, without inversion and swap, returns the array of
\* that file: same shape, dtype and pixel values.
C10_SingleField ==
    (pc = "saved" /\ file_num = 1
        /\ ~x_inverted /\ ~y_inverted /\ ~swap_axes) =>
        stitched_image = fields[1].image

\* C10 witness: one downsampled 2 x 2 field was stitched and saved.
C10_Witness ==
    /\ pc = "saved"
    /\ file_num = 1
    /\ ~x_inverted /\ ~y_inverted /\ ~swap_axes
    /\ ds_factor = 2
    /\ stitched_image.h = 2
    /\ stitched_image.w = 2
    /\ stitched_image = fields[1].image

\* C11: when the first field's array height differs from the metadata height
\* and does not divide it, the first iteration ends the call with a
\* ConfigurationError instead of going on with a truncated downsample factor.
C11_MismatchRejected ==
    (/\ Len(fields) >= 1
     /\ fields[1].meta_ok
     /\ fields[1].load_ok
     /\ fields[1].image.h # fields[1].meta.image_height
     /\ fields[1].meta.image_height % fields[1].image.h # 0
     /\ (file_num >= 1 \/ pc \in {"raised", "saved"}))
    => (pc = "raised" /\ error = "ConfigurationError" /\ file_num = 0)

\* C12: a call with an empty field list, of stitch_images or of
\* _stitch_mm_images, fails with a ConfigurationError and writes nothing.
C12_EmptyInput ==
    [][(CallEmpty \/ StitchMMEmpty)
       => (/\ pc' = "raised"
           /\ error' = "ConfigurationError"
           /\ ~dest_created'
           /\ save_calls' = 0)]_vars

\* C13: a field without metadata, the first or a later one, ends the call
\* with a MetadataError.
C13_MissingMetadata ==
    [][((\E f \in FirstFiles : ~f.meta_ok /\ Call(f))
        \/ (\E f \in LaterFiles : ~f.meta_ok /\ LoopLater(f)))
       => (pc' = "raised" /\ error' = "MetadataError")]_vars

\* C14: when a call of stitch_images has failed, it has created no directory
\* and copied or saved no file under save_path.parent.
C14_NoOutputOnFailure ==
    pc = "raised" => (~dest_created /\ save_calls = 0)

\* C15: stitch_images accepts a rotation count num_90_rotations in 0..3: a
\* call that passes one enters the stitching instead of being refused.
C15_RotationAccepted ==
    [][\A n \in Rotations : CallRotated(n) => pc' # "raised"]_vars

\* the values of pixel (r, c) over all pages of the files
PagePixels(file_list, r, c) ==
    UNION {{file_list[i][j].image.px[r][c] : j \in 1..Len(file_list[i])} :
              i \in 1..Len(file_list)}

\* proj is the array of the pages' shape whose every pixel is the maximum
\* of that pixel over all pages of the files
IsMaxProjection(proj, file_list) ==
    LET first == file_list[1][1].image
    IN  /\ proj.h = first.h
        /\ proj.w = first.w
        /\ \A r \in 1..first.h, c \in 1..first.w :
               proj.px[r][c] = MaxOf(PagePixels(file_list, r, c))

\* C17: get_max on a TIFF of any number of pages and _get_max_from_list on
\* any non-empty list of files return the array whose every pixel is the
\* maximum of that pixel over all pages.
C17_MaxProjection ==
    [][/\ GetMax =>
            (pc' = "returned" /\ IsMaxProjection(max_proj', <<tif_files[1]>>))
       /\ GetMaxFromList =>
            (pc' = "returned" /\ IsMaxProjection(max_proj', tif_files))]_vars

\* the canvas and ranges after the pages from the i-th on have been placed
\* as _stitch_mm_images places separate files, acc the canvas so far
RECURSIVE PlacedFrom(_, _, _)
PlacedFrom(stack, i, acc) ==
    IF acc.raised \/ i > Len(stack) THEN acc
    ELSE LET first == stack[1]
             offsets == _get_xy_offsets(
                 _get_positions(first.meta), _get_positions(stack[i].meta),
                 x_inverted, y_inverted, swap_axes,
                 _get_pixel_size(first.meta, 1))
         IN  PlacedFrom(stack, i + 1,
                 _stitch_new_image(stack[i].image, acc.image, offsets[1],
                                   offsets[2], <<first.image.h, first.image.w>>,
                                   acc.x_range, acc.y_range))

\* the pages of a stack stitched as fields of their own
PagesAsFields(stack) ==
    PlacedFrom(stack, 2,
               [raised |-> FALSE, image |-> stack[1].image,
                x_range |-> <<0, stack[1].image.w>>,
                y_range |-> <<0, stack[1].image.h>>])

\* C16: for one multi-page file whose pages carry different stage
\* positions, the call ends with the canvas in which every page is placed at
\* its own offset, as separate files would be.
C16_PagesAsFields ==
    (Len(tif_files) = 1 /\ pc \in {"saved", "raised"})
    => (/\ pc = "saved"
        /\ stitched_image = PagesAsFields(tif_files[1]).image
        /\ x_range = PagesAsFields(tif_files[1]).x_range
        /\ y_range = PagesAsFields(tif_files[1]).y_range)

\* C18: a fish directory fish{n} that the loop has passed was stitched if
\* and only if fish_nums is empty or n is in fish_nums, for every n,
\* also n >= 10.
C18_FishFilter ==
    \A n \in 1..MaxFish :
        (\A i \in 1..Len(fish_dirs) : fish_dirs[i] # FishName(n))
        => (FishName(n) \in stitched_fish
            <=> (fish_nums = {} \/ n \in fish_nums))

\* no metadata file can be found for the path: it does not exist, it is a
\* file that is neither an image nor a metadata file, or its directory holds
\* no metadata file
NoMetadataFor(fp) ==
    \/ fp.kind = "missing"
    \/ fp.kind = "file" /\ ~fp.is_image /\ ~fp.is_mm_metadata
    \/ /\ fp.kind = "dir" \/ (fp.kind = "file" /\ fp.is_image)
       /\ \A i \in 1..Len(fp.dir_files) : ~fp.dir_files[i].is_mm_metadata

\* C19: when no metadata file can be found for file_path, MMMetadata raises
\* FileNotFoundError and is_mm returns False.
C19_LookupFailure ==
    [][NoMetadataFor(file_path)
       => /\ NewMMMetadata => (pc' = "raised" /\ error' = "FileNotFoundError")
          /\ IsMM => (pc' = "returned" /\ is_mm_result' = "False")]_vars

\* C20: for every ndim >= 2 the tuple _get_downsample_tuple returns has
\* length ndim, its last two entries are the factor and all others are 1.
C20_DownsampleTuple ==
    (pc = "returned" /\ image_num_dims >= 2)
    => (/\ Len(downsample_tuple) = image_num_dims
        /\ \A i \in 1..image_num_dims :
               downsample_tuple[i] =
                   IF i >= image_num_dims - 1 THEN downsample_factor ELSE 1)

\* the case of the test: 4 dimensions, factor 4, tuple (1, 1, 4, 4)
C20_Witness ==
    /\ pc = "returned"
    /\ image_num_dims = 4
    /\ downsample_factor = 4
    /\ downsample_tuple = <<1, 1, 4, 4>>

\* C21: the result of get_image_metadata(n) describes the n-th frame, and
\* the frame's ZPositionUm is read from it by key lookup.
C21_ImageMetadataLookup ==
    [][/\ GetImageMetadata =>
            (/\ frame_metadata'.image_index = image_index
             /\ frame_metadata'.z_pos = mm_frames[image_index + 1].ZPositionUm)
       /\ GetItem =>
            (/\ pc' = "returned"
             /\ item_value' = mm_frames[image_index + 1].ZPositionUm)]_vars

\* C22: get_median_subtracted_image returns, in the dtype of the input, the
\* image whose every pixel is max(input pixel - m, 0), m the truncated
\* median of the image.
C22_MedianSubtracted ==
    (median_image # NoImage /\ pc \in {"returned", "raised"})
    => (/\ pc = "returned"
        /\ subtracted_image.dtype = median_image.dtype
        /\ \A c \in 1..median_image.w :
               subtracted_image.px[1][c] =
                   Max2(median_image.px[1][c] - IntMedian(median_image), 0))

\* the slices _stitch_new_image computes in a step that places a field
PlacedSlices ==
    LET new_ranges == _get_new_ranges(x_offset', y_offset', image_dims)
        extns == _get_stitched_extns(x_range, y_range, new_ranges[1],
                                     new_ranges[2])
    IN  _get_position_slices(extns[1], extns[2], image_dims)

\* a step of the loop that places a later field
PlacesLaterField ==
    pc = "loop" /\ file_num >= 1 /\ file_num' = file_num + 1

\* C23: for every later field the destination slice is columns
\* [x_offset - x_range[0], x_offset - x_range[0] + width) and rows
\* [y_offset - y_range[0], y_offset - y_range[0] + height) of the updated
\* ranges; it starts at 0 or later, has the field's dimensions and lies
\* inside the extended canvas.
C23_PlacementSlice ==
    [][PlacesLaterField =>
         LET field == fields'[file_num'].image
             x_slice == PlacedSlices[1]
             y_slice == PlacedSlices[2]
         IN  /\ x_slice = <<x_offset' - x_range'[1],
                            x_offset' - x_range'[1] + field.w>>
             /\ y_slice = <<y_offset' - y_range'[1],
                            y_offset' - y_range'[1] + field.h>>
             /\ x_slice[1] >= 0
             /\ y_slice[1] >= 0
             /\ x_slice[2] <= stitched_image'.w
             /\ y_slice[2] <= stitched_image'.h]_vars

\* a third field was placed inside the canvas that the second field had
\* extended to the left: its slice starts at minus the extension
C23_Witness ==
    /\ pc = "loop"
    /\ file_num = 3
    /\ x_offset < 0
    /\ x_offset > x_range[1]
    /\ y_offset > 0

\* the extensions _stitch_new_image computes in a step that places a field
PlacedExtns ==
    LET new_ranges == _get_new_ranges(x_offset', y_offset', image_dims)
    IN  _get_stitched_extns(x_range, y_range, new_ranges[1], new_ranges[2])

\* C24: _add_stitched_extns grows the canvas by max(left, 0) + max(right, 0)
\* columns and max(top, 0) + max(bottom, 0) rows, every added cell is 0 and
\* every pixel (r, c) of the canvas before is found unchanged at
\* (r + max(top, 0), c + max(left, 0)); the dtype is kept.
C24_CanvasExtension ==
    [][PlacesLaterField =>
         LET left == Max2(PlacedExtns[1][1], 0)
             right == Max2(PlacedExtns[1][2], 0)
             top == Max2(PlacedExtns[2][1], 0)
             bottom == Max2(PlacedExtns[2][2], 0)
             extended == _add_stitched_extns(stitched_image, PlacedExtns[1],
                                             PlacedExtns[2])
         IN  /\ extended.w = stitched_image.w + left + right
             /\ extended.h = stitched_image.h + top + bottom
             /\ extended.dtype = stitched_image.dtype
             /\ stitched_image'.w = extended.w
             /\ stitched_image'.h = extended.h
             /\ \A r \in 1..extended.h, c \in 1..extended.w :
                    extended.px[r][c] =
                        IF /\ r > top /\ r <= top + stitched_image.h
                           /\ c > left /\ c <= left + stitched_image.w
                        THEN stitched_image.px[r - top][c - left]
                        ELSE 0]_vars

\* a canvas that was extended to the left and at the bottom, and not to the
\* right or at the top
C24_Witness ==
    /\ pc = "loop"
    /\ file_num = 2
    /\ x_range[1] < 0
    /\ x_range[2] = image_dims[2]
    /\ y_range[1] = 0
    /\ y_range[2] > image_dims[1]

\* C26: for an image file MMMetadata loads a metadata file of the directory
\* whose name contains the image's file name up to ".ome"; it loads another
\* metadata file of the directory only when none matches the name.
C26_MatchingMetadata ==
    (/\ pc = "returned"
     /\ file_path.kind = "file"
     /\ file_path.is_image
     /\ metadata_file.from = "dir")
        => LET dir_files == file_path.dir_files
               matching == {i \in 1..Len(dir_files) :
                               /\ dir_files[i].is_mm_metadata
                               /\ dir_files[i].name_matches}
           IN  /\ dir_files[metadata_file.index].is_mm_metadata
               /\ matching # {} => metadata_file.index \in matching

\* the files _get_new_image is to project: all image files of the directory
\* when it is a Micro-Manager directory and the reduced name of every file
\* and of the first contain one another, else the listed file alone
FilesOfField ==
    LET reduced == [i \in 1..Len(file_names) |->
                       get_reduced_filename(file_names[i])]
        same_sequence ==
            /\ \E i \in 1..Len(file_path.dir_files) :
                   file_path.dir_files[i].is_mm_metadata
            /\ \A i \in 2..Len(file_names) :
                   \/ Contains(reduced[i], reduced[1])
                   \/ Contains(reduced[1], reduced[i])
    IN  IF same_sequence THEN tif_files ELSE <<tif_files[file_index]>>

\* C25: _get_new_image returns the max projection over all image files of
\* the directory when all are of the Micro-Manager sequence of the first,
\* and else the max projection of the listed file alone.
C25_FieldLoading ==
    [][GetNewImage =>
         (pc' = "returned" /\ IsMaxProjection(max_proj', FilesOfField))]_vars

\* the page number the coordinates stand for: the last stored axis, the
\* first item, varies fastest and an axis without coordinate counts as 0
RECURSIVE PageOfCoords(_, _, _)
PageOfCoords(items, i, cd) ==
    IF i > Len(items) THEN 0
    ELSE CoordOf(cd, items[i][1])
             + items[i][2] * PageOfCoords(items, i + 1, cd)

\* every coordinate is one of a listed axis and lies in 0..dimension-1, and
\* the coordinates are the mixed-radix decomposition of page_num
IsDecomposition ==
    LET items == get_dimensions_dict(series)
    IN  /\ \A i \in 1..Len(coords_dict) :
               \E j \in 1..Len(items) :
                   /\ items[j][1] = coords_dict[i][1]
                   /\ coords_dict[i][2] >= 0
                   /\ coords_dict[i][2] < items[j][2]
        /\ PageOfCoords(items, 1, coords_dict) = page_num

\* no other page of the stack gets the name of this page
NameIsOfThisPage ==
    \A other \in 0..(Product(series.shape) - 1) :
        other # page_num =>
            get_new_file_name("stack", get_coords_dict(series, other))
                # new_file_name

\* C27: for every page of a stack get_coords_dict returns the mixed-radix
\* decomposition of page_num with every coordinate inside its dimension,
\* and get_new_file_name gives distinct pages distinct names.
C27_PageCoordinates ==
    /\ pc \in {"coords", "returned"} => IsDecomposition
    /\ pc = "returned" => NameIsOfThisPage

\* C30: under every interleaving of the tasks of pool.map no TIFF file is
\* deleted before all of its own pages have been written as PNG.
C30_NoInputLost ==
    \A t \in 1..Len(file_path_tuples) :
        tif_present[t] \/ task_page[t] = file_path_tuples[t].pages

\* the orders of the merged files that keep the first file first
OrdersOfLater ==
    {p \in [1..file_num -> 1..file_num] :
        /\ p[1] = 1
        /\ \A i, j \in 1..file_num : i # j => p[i] # p[j]}

\* the canvas and the ranges _stitch_mm_images reaches
Stitched ==
    [raised |-> FALSE, image |-> stitched_image,
     x_range |-> x_range, y_range |-> y_range]

\* the merged files stitched in every order give the canvas and ranges reached
OrderIndependent ==
    \A p \in OrdersOfLater :
        PagesAsFields([i \in 1..file_num |-> fields[p[i]]]) = Stitched

\* placing any of the merged files once more at its position changes nothing
PlacedAgainUnchanged ==
    \A i \in 1..file_num :
        _stitch_new_image(fields[i].image, stitched_image, OffsetOf(i)[1],
                          OffsetOf(i)[2], image_dims, x_range, y_range)
            = Stitched

\* C28 as stated: for a fixed first field and non-negative pixel values the
\* remaining fields stitched in any order give the same ranges and the same
\* canvas, and a field placed a second time changes nothing.
C28_OrderIndependentAnyFields ==
    file_num >= 1 => (OrderIndependent /\ PlacedAgainUnchanged)

\* C28 as amended: the same, for fields whose pixel values the dtype of the
\* first field can represent.
C28_OrderIndependent ==
    (file_num >= 1 /\ Representable)
        => (OrderIndependent /\ PlacedAgainUnchanged)

\* three merged fields, the second and third at different positions with
\* different values at a pixel both cover, the canvas extended
C28_Witness ==
    /\ file_num = 3
    /\ Representable
    /\ OffsetOf(2) # OffsetOf(3)
    /\ x_range[1] < 0
    /\ \E r \in 1..stitched_image.h, c \in 1..stitched_image.w :
           /\ {2, 3} \subseteq Covering(r, c)
           /\ ValueAt(2, r, c) # ValueAt(3, r, c)

\* C29: for fields of any numeric dtype, negative values included, a canvas
\* pixel covered by exactly one field holds that field's value and a pixel
\* covered by no field holds 0.
C29_SoleCoverage ==
    file_num >= 1 =>
        \A r \in 1..stitched_image.h, c \in 1..stitched_image.w :
            /\ Covering(r, c) = {} => stitched_image.px[r][c] = 0
            /\ \A i \in 1..file_num :
                   Covering(r, c) = {i}
                       => stitched_image.px[r][c] = ValueAt(i, r, c)

====
